---- MODULE Spec2Model ----
(***************************************************************************)
(* Verification model of the video crop / keyframe extraction pipeline.    *)
(*                                                                         *)
(*   crop_n_frame.cpp : detect_crop_ffmpeg, detect_gradient, is_good_crop, *)
(*                      crop_gpu, handle_video_phase1, phase1_crop,        *)
(*                      phase2_extract, main                               *)
(*   crop/main.cpp    : init_filters, encode_write_frame, main (the        *)
(*                      hardware decode -> filter -> encode job)           *)
(*                                                                         *)
(* Several specifications share the module: SpecPhase1 (one run of         *)
(* handle_video_phase1 with the detectors it calls), SpecBatch (the        *)
(* orchestrator of crop_n_frame.cpp), SpecPipeline (one job of             *)
(* crop/main.cpp), SpecGoodCrop (is_good_crop), SpecProbe (ffprobe_val     *)
(* and its callers), SpecDetectors (the three crop detectors) and          *)
(* SpecExtract (extract_frames_for_video).  External collaborators         *)
(* (ffprobe, ffmpeg, OpenCV, the libav libraries) are nondeterministic     *)
(* choices over their results.                                             *)
(***************************************************************************)
EXTENDS Integers, Sequences, FiniteSets, TLC

VARIABLES
  \* ---- handle_video_phase1 and the detectors (crop_n_frame.cpp) ----
  h_pc,        \* position inside handle_video_phase1
  src,         \* the source video being processed (its true dimensions)
  ow, oh,      \* int ow, oh (line 361)
  rects,       \* std::vector<CropRect> rects of detect_crop_ffmpeg (line 142)
  k,           \* probe loop counter of detect_crop_ffmpeg (line 143)
  rect,        \* CropRect rect (line 379)
  alt_rect,    \* CropRect alt_rect (line 384)
  mode,        \* std::string mode (line 380)
  crop_arg,    \* the rectangle handed to crop_gpu, with crop_w / crop_h
  crop_ret,    \* int ret of crop_gpu (line 347): "notrun", "zero", "nonzero"
  dst_file,    \* what lies at CROPPED_DIR / filename
  status,      \* the value handle_video_phase1 returned, or "threw"
  \* ---- phase1_crop, phase2_extract, main (crop_n_frame.cpp) ----
  m_pc,            \* position of the orchestrating thread
  m_ret,           \* exit status of main, NotReturned while running
  input_dir,       \* INPUT_DIR exists and is a directory
  cropped_dir,     \* CROPPED_DIR exists
  vids,            \* std::vector<fs::path> vids: video v is INPUT_DIR / <v><ext>
  next_v,          \* position of the for loop of line 667 in vids
  futures,         \* std::vector<std::future<std::string>> futures (line 666)
  scan_i,          \* size_t i of the polling loop (line 672)
  one_completed,   \* bool one_completed (line 670)
  drain_i,         \* position of the for loop of line 686 in futures
  task,            \* per video: state of its std::async task
  result,          \* per video: what handle_video_phase1 ended with
  file,            \* per video: what lies at CROPPED_DIR / filename
  cropped_videos,  \* std::vector<fs::path> cropped_videos (line 697)
  p2_i,            \* position of the for loop of line 724
  extracting,      \* videos inside extract_frames_for_video right now
  p2_result,       \* per video: how its extraction ended
  \* ---- main of crop/main.cpp: one decode -> filter -> encode job ----
  pl_pc,           \* position inside main
  decoder,         \* const AVCodec *decoder (line 325): "none", "cuvid", "software"
  pix_fmt_cuda,    \* decoder_ctx->pix_fmt == AV_PIX_FMT_CUDA
  nofile,          \* output_format_ctx_global->oformat->flags & AVFMT_NOFILE
  res,             \* the pointers of main and what they refer to
  ret,             \* int ret (line 328)
  n_decoded,       \* frames avcodec_receive_frame has delivered
  pending,         \* frames fed to the filter graph and not yet taken from it
  frame_pts,       \* frame->pts
  last_input_pts,  \* long long last_input_pts (line 638)
  hist,            \* per decoded frame: its PTS as decoded and as handed on
  exit_status,     \* what main returned
  job,             \* what has happened to the job: errors met, stages drained
  \* ---- one call of is_good_crop (crop_n_frame.cpp) ----
  gc_rect,         \* const CropRect& rect (line 289)
  gc_ow, gc_oh,    \* int ow, int oh (line 289)
  gc_eval,         \* what the call computed: its locals and its return value
  \* ---- one call of one of the three detectors (crop_n_frame.cpp) ----
  dt_pc,           \* "idle", "call", "done"
  dt_in,           \* what the detector sees: probe matches, contours or an image
  dt_out,          \* the CropRect it returned
  \* ---- extract_frames_for_video (crop_n_frame.cpp) ----
  ex_pc,                   \* "idle", "scene", "check", "loop", "done"
  video,                   \* the cropped video: its frame count and sampled frames
  scene_kept,              \* frames the scene pass wrote (lines 525-569)
  final_frame_idx,         \* int final_frame_idx (line 524)
  total_frames,            \* long total_frames (line 583)
  step,                    \* long step (line 584)
  current_fallback_count,  \* int current_fallback_count (line 587)
  fb_i,                    \* int i of the fallback loop (line 589)
  fb_written,              \* positions of the frames the fallback wrote, in order
  fb_end,                  \* how the fallback ended
  scene_tmp,               \* out_dir / "scene_cuts_temp": whether it exists, its files
  scene_pngs,              \* std::vector<fs::path> scene_pngs (line 517)
  out_dir,                 \* the images written into out_dir, in the order written
  ex_exit,                 \* how extract_frames_for_video was left
  \* ---- one call of encode_write_frame (crop/main.cpp) ----
  ew_pc,           \* "idle", "send", "receive", "returned"
  ew_arg,          \* AVFrame *filt_frame ("frame" or "nullptr"), bool flush
  ew_st,           \* int ret, what the encoder emitted, what was written
  \* ---- one use of ffprobe_val by one of its callers (crop_n_frame.cpp) ----
  fp_pc,           \* "idle", "call", "call2", "use", "done"
  fp_key,          \* what the caller asks for: "duration", "dims", "codec_name"
  fp_popen,        \* popen() of line 75 returns a pipe
  fp_exit,         \* exit status of ffprobe: "zero" or "nonzero"
  fp_out,          \* what ffprobe wrote to stdout, as characters
  fp_out2,         \* the same for the second query of "dims" (height)
  fp_val,          \* what ffprobe_val returned for the first query, or Threw
  fp_val2,         \* what it returned for the second query
  fp_use           \* what the caller made of it

h1Vars == <<h_pc, src, ow, oh, rects, k, rect, alt_rect, mode, crop_arg, crop_ret,
           dst_file, status>>

bVars == <<m_pc, m_ret, input_dir, cropped_dir, vids, next_v, futures, scan_i,
          one_completed, drain_i, task, result, file, cropped_videos, p2_i,
          extracting, p2_result>>

plVars == <<pl_pc, decoder, pix_fmt_cuda, nofile, res, ret, n_decoded,
           pending, frame_pts, last_input_pts, hist, exit_status, job>>

gcVars == <<gc_rect, gc_ow, gc_oh, gc_eval>>

fpVars == <<fp_pc, fp_key, fp_popen, fp_exit, fp_out, fp_out2, fp_val, fp_val2, fp_use>>

dtVars == <<dt_pc, dt_in, dt_out>>

exVars == <<ex_pc, video, scene_kept, final_frame_idx, total_frames, step,
           current_fallback_count, fb_i, fb_written, fb_end, scene_tmp, scene_pngs, ex_exit,
           out_dir>>

ewVars == <<ew_pc, ew_arg, ew_st>>

vars == <<h1Vars, bVars, plVars, gcVars, fpVars, dtVars, exVars, ewVars>>

\* what a step of one component leaves alone
notH1Vars == <<bVars, plVars, gcVars, fpVars, dtVars, exVars, ewVars>>
notBVars == <<h1Vars, plVars, gcVars, fpVars, dtVars, exVars, ewVars>>
notPlVars == <<h1Vars, bVars, gcVars, fpVars, dtVars, exVars, ewVars>>
notGcVars == <<h1Vars, bVars, plVars, fpVars, dtVars, exVars, ewVars>>
notFpVars == <<h1Vars, bVars, plVars, gcVars, dtVars, exVars, ewVars>>
notDtVars == <<h1Vars, bVars, plVars, gcVars, fpVars, exVars, ewVars>>
notExVars == <<h1Vars, bVars, plVars, gcVars, fpVars, dtVars, ewVars>>
notEwVars == <<h1Vars, bVars, plVars, gcVars, fpVars, dtVars, exVars>>

(***************************************************************************)
(* Program constants of crop_n_frame.cpp                                   *)
(***************************************************************************)
FFMPEG_PROBES == 3
SAFE_MARGIN_PX == 4
MAX_WORKERS == 3
MIN_FRAMES == 4

(***************************************************************************)
(* Bounds of the model                                                     *)
(***************************************************************************)
SmallW == 24          \* width of the small synthetic source
SmallH == 20          \* height of the small synthetic source
MaxProbeX == 6        \* largest x a probe of the small source reports
MaxProbeY == 6        \* largest y a probe of the small source reports
MaxVideos == 4        \* most videos INPUT_DIR holds
MaxFrames == 2        \* most frames the decoder delivers
MaxPts == 1           \* largest timestamp a decoded frame carries
MaxDim == 20          \* largest dimension handed to is_good_crop on its own
MaxImg == 3           \* width and height of the images handed to detect_image_crop_cv
MaxLine == 2          \* most pixels in a line handed to is_blank_line
MaxTotal == 11        \* most frames a cropped video holds
MaxScene == 5         \* most frames the scene pass keeps
MaxStreams == 2       \* most streams in an input file
MaxPackets == 4       \* most packets the encoder emits during one call

(***************************************************************************)
(* CropRect (crop_n_frame.cpp:58)                                          *)
(***************************************************************************)
CropRect(x, y, w, h, valid) == [x |-> x, y |-> y, w |-> w, h |-> h, valid |-> valid]

\* the literal {0,0,0,0,false} every detector returns for "nothing found"
InvalidRect == CropRect(0, 0, 0, 0, FALSE)

Min2(a, b) == IF a < b THEN a ELSE b
Max2(a, b) == IF a > b THEN a ELSE b

\* int make_even(int x)
make_even(x) == IF x % 2 = 0 THEN x ELSE x + 1

(***************************************************************************)
(* The sources the model processes and what their probes may report.       *)
(***************************************************************************)
ScenarioSrc == [ow |-> 1280, oh |-> 720]
SmallSrc == [ow |-> SmallW, oh |-> SmallH]
Sources == {ScenarioSrc, SmallSrc}

\* the border-free region of a 1280x720 source with 80px top/bottom bars
ScenarioRect == CropRect(0, 80, 1280, 560, TRUE)

\* The last "crop=W:H:X:Y" match of one probe's log.  The regex admits only
\* digit strings, so every component is >= 0; it admits odd numbers as well
\* as even ones, whatever wrote them into the log.
ProbeRects(s) ==
  IF s = ScenarioSrc
    THEN {ScenarioRect, CropRect(0, 0, 1280, 720, TRUE)}
    ELSE {CropRect(x, y, w, h, TRUE) :
            x \in {0, 2, MaxProbeX}, y \in {0, MaxProbeY}, w \in {2, 7, 10}, h \in {4, 12}}

\* cv::Rect
Rect(x, y, width, height) == [x |-> x, y |-> y, width |-> width, height |-> height]

\* cv::boundingRect of the contours cv::findContours can report for the
\* half-size mask of a source: a contour has a point at least, so its box is
\* one pixel wide and high at least, and lies inside the mask.
ContourRects(s) ==
  IF s = ScenarioSrc
    THEN {Rect(0, 40, 640, 280), Rect(0, 0, 640, 360)}
    ELSE {r \in {Rect(x, y, width, height) :
                    x \in {0, 2}, y \in {0, 2},
                    width \in {1, 6, SmallW \div 2}, height \in {5, SmallH \div 2}} :
            r.x + r.width <= SmallW \div 2 /\ r.y + r.height <= SmallH \div 2}

\* lines 267-276: the bounding box of largest area, scanning the contours in
\* order from max_area = 0 and a default-constructed cv::Rect
RECURSIVE BestRectScan(_, _, _, _)
BestRectScan(rs, i, max_area, best_rect) ==
  IF i > Len(rs) THEN best_rect
  ELSE IF rs[i].width * rs[i].height > max_area
    THEN BestRectScan(rs, i + 1, rs[i].width * rs[i].height, rs[i])
    ELSE BestRectScan(rs, i + 1, max_area, best_rect)

\* lines 265-285, for the bounding boxes of the contours found: s = 1.0 /
\* DOWNSCALE is 2.0, and the casts of lines 280-283 are exact
detect_gradient(rs) ==
  IF rs = <<>> THEN InvalidRect
  ELSE LET best_rect == BestRectScan(rs, 1, 0, Rect(0, 0, 0, 0))
       IN CropRect(2 * best_rect.x, 2 * best_rect.y,
                   2 * best_rect.width, 2 * best_rect.height, TRUE)

\* what detect_gradient returns when the mask has one contour
GradientRects(s) == {detect_gradient(<<b>>) : b \in ContourRects(s)}

(***************************************************************************)
(* detect_crop_ffmpeg, lines 178-201: union of the probe rectangles,       *)
(* computed as the code does, by a left-to-right scan of rects.            *)
(***************************************************************************)
RECURSIVE ScanMinX(_, _, _)
ScanMinX(rs, i, acc) ==
  IF i > Len(rs) THEN acc ELSE ScanMinX(rs, i + 1, Min2(acc, rs[i].x))

RECURSIVE ScanMinY(_, _, _)
ScanMinY(rs, i, acc) ==
  IF i > Len(rs) THEN acc ELSE ScanMinY(rs, i + 1, Min2(acc, rs[i].y))

RECURSIVE ScanMaxXW(_, _, _)
ScanMaxXW(rs, i, acc) ==
  IF i > Len(rs) THEN acc ELSE ScanMaxXW(rs, i + 1, Max2(acc, rs[i].x + rs[i].w))

RECURSIVE ScanMaxYH(_, _, _)
ScanMaxYH(rs, i, acc) ==
  IF i > Len(rs) THEN acc ELSE ScanMaxYH(rs, i + 1, Max2(acc, rs[i].y + rs[i].h))

\* A slip in lines 197-198: the width and height taken as extent + 2 * margin,
\* which forgets that the left / top edge was clamped at 0.
UnionWithMargin_unclamped(rs, margin) ==
  IF rs = <<>> THEN InvalidRect
  ELSE
    LET min_x == ScanMinX(rs, 2, rs[1].x)
        min_y == ScanMinY(rs, 2, rs[1].y)
        max_x_plus_w == ScanMaxXW(rs, 2, rs[1].x + rs[1].w)
        max_y_plus_h == ScanMaxYH(rs, 2, rs[1].y + rs[1].h)
    IN CropRect(Max2(0, min_x - margin), Max2(0, min_y - margin),
                max_x_plus_w - min_x + 2 * margin,
                max_y_plus_h - min_y + 2 * margin, TRUE)

\* lines 178-201 with the margin as a parameter
UnionWithMargin(rs, margin) ==
  IF rs = <<>> THEN InvalidRect
  ELSE
    LET min_x == ScanMinX(rs, 2, rs[1].x)
        min_y == ScanMinY(rs, 2, rs[1].y)
        max_x_plus_w == ScanMaxXW(rs, 2, rs[1].x + rs[1].w)
        max_y_plus_h == ScanMaxYH(rs, 2, rs[1].y + rs[1].h)
        final_x == Max2(0, min_x - margin)
        final_y == Max2(0, min_y - margin)
        final_w == (max_x_plus_w + margin) - Max2(0, min_x - margin)
        final_h == (max_y_plus_h + margin) - Max2(0, min_y - margin)
    IN CropRect(final_x, final_y, final_w, final_h, TRUE)

\* what detect_crop_ffmpeg returns for the rectangles its probes collected
AggregateProbes(rs) == UnionWithMargin(rs, SAFE_MARGIN_PX)

(***************************************************************************)
(* is_good_crop, lines 289-294.  The double comparisons                    *)
(*   w < ow * (1.0 - 0.10)   and   w > 0.05 * ow                           *)
(* are exact for the integer ranges of video dimensions, so they are the   *)
(* integer comparisons 10 w < 9 ow and 20 w > ow.                          *)
(***************************************************************************)
\* A slip in line 291: <= instead of <.
significant_crop_inclusive(r, o_w, o_h) == (10 * r.w <= 9 * o_w) \/ (10 * r.h <= 9 * o_h)

significant_crop(r, o_w, o_h) == (10 * r.w < 9 * o_w) \/ (10 * r.h < 9 * o_h)

\* A slip in line 292: the sliver test on the width only.
sensible_size_width_only(r, o_w, o_h) == 20 * r.w > o_w

sensible_size(r, o_w, o_h) == (20 * r.w > o_w) /\ (20 * r.h > o_h)

is_good_crop(r, o_w, o_h) ==
  IF ~r.valid \/ r.w <= 0 \/ r.h <= 0 THEN FALSE
  ELSE significant_crop(r, o_w, o_h) /\ sensible_size(r, o_w, o_h)

\* what one call of is_good_crop computes: whether it got past the early
\* return of line 290, its two locals (FALSE while not computed) and its
\* return value
EvalGoodCrop(r, o_w, o_h) ==
  LET reached == ~(~r.valid \/ r.w <= 0 \/ r.h <= 0)
  IN [ called |-> TRUE,
       reached |-> reached,
       significant_crop |-> reached /\ significant_crop(r, o_w, o_h),
       sensible_size |-> reached /\ sensible_size(r, o_w, o_h),
       ret |-> is_good_crop(r, o_w, o_h) ]

NotEvaluated ==
  [called |-> FALSE, reached |-> FALSE, significant_crop |-> FALSE, sensible_size |-> FALSE, ret |-> FALSE]

\* is_good_crop on its own is not part of a run of the other specifications.
GcIdle ==
  /\ gc_rect = InvalidRect /\ gc_ow = 0 /\ gc_oh = 0
  /\ gc_eval = NotEvaluated

(***************************************************************************)
(* handle_video_phase1, lines 355-411, with the calls it makes             *)
(***************************************************************************)
(***************************************************************************)
(* execute_command and ffprobe_val, lines 64-94.  Text is a sequence of    *)
(* characters.                                                             *)
(***************************************************************************)
\* an exception left the call
Threw == <<"std::runtime_error">>

\* the characters lines 90-91 strip: " \n\r\t"
Whitespace == {" ", "\n", "\r", "\t"}

UpperCase == <<"A", "B", "C", "D", "E", "F", "G", "H", "I", "J", "K", "L", "M",
               "N", "O", "P", "Q", "R", "S", "T", "U", "V", "W", "X", "Y", "Z">>
LowerCase == <<"a", "b", "c", "d", "e", "f", "g", "h", "i", "j", "k", "l", "m",
               "n", "o", "p", "q", "r", "s", "t", "u", "v", "w", "x", "y", "z">>

\* ::tolower on one character
tolower(c) ==
  IF \E i \in 1..Len(UpperCase) : UpperCase[i] = c
    THEN LowerCase[CHOOSE i \in 1..Len(UpperCase) : UpperCase[i] = c]
    ELSE c

\* line 90: output.erase(0, output.find_first_not_of(" \n\r\t"))
RECURSIVE EraseLeading(_)
EraseLeading(s) ==
  IF s = <<>> THEN <<>>
  ELSE IF Head(s) \in Whitespace THEN EraseLeading(Tail(s)) ELSE s

\* line 91: output.erase(output.find_last_not_of(" \n\r\t") + 1)
RECURSIVE EraseTrailing(_)
EraseTrailing(s) ==
  IF s = <<>> THEN <<>>
  ELSE IF s[Len(s)] \in Whitespace THEN EraseTrailing(SubSeq(s, 1, Len(s) - 1)) ELSE s

\* lines 64-83: the output of the command, or the throw of line 77.  The exit
\* status that pclose collects is never looked at.
execute_command(popen_ok, exit, out) == IF popen_ok THEN out ELSE Threw

\* A slip in lines 90-91: the output is lower-cased but not trimmed.
ffprobe_val_untrimmed(popen_ok, exit, out) ==
  IF ~popen_ok THEN Threw ELSE [i \in 1..Len(out) |-> tolower(out[i])]

\* lines 86-94
ffprobe_val(popen_ok, exit, out) ==
  LET output == execute_command(popen_ok, exit, out)
  IN IF output = Threw THEN Threw
     ELSE LET trimmed == EraseTrailing(EraseLeading(output))
          IN [i \in 1..Len(trimmed) |-> tolower(trimmed[i])]

Digits == <<"0", "1", "2", "3", "4", "5", "6", "7", "8", "9">>
IsDigit(c) == \E i \in 1..Len(Digits) : Digits[i] = c
DigitValue(c) == (CHOOSE i \in 1..Len(Digits) : Digits[i] = c) - 1

\* the longest prefix of s made of digits
RECURSIVE DigitPrefix(_)
DigitPrefix(s) ==
  IF s = <<>> \/ ~IsDigit(Head(s)) THEN <<>> ELSE <<Head(s)>> \o DigitPrefix(Tail(s))

\* the largest int
INT_MAX == 2147483647

\* the value of the digits ds after acc, or -1 once it exceeds INT_MAX
RECURSIVE DecimalValue(_, _)
DecimalValue(ds, acc) ==
  IF ds = <<>> THEN acc
  ELSE IF acc > (INT_MAX - DigitValue(Head(ds))) \div 10 THEN -1
  ELSE DecimalValue(Tail(ds), 10 * acc + DigitValue(Head(ds)))

\* std::stoi on an unsigned decimal text: the value of the leading digits,
\* std::invalid_argument when there are none, std::out_of_range when the
\* value does not fit an int
stoi(s) ==
  LET ds == DigitPrefix(s)
  IN IF ds = <<>> THEN [ok |-> FALSE, value |-> 0, what |-> "std::invalid_argument"]
     ELSE IF DecimalValue(ds, 0) = -1
       THEN [ok |-> FALSE, value |-> 0, what |-> "std::out_of_range"]
       ELSE [ok |-> TRUE, value |-> DecimalValue(ds, 0), what |-> "none"]

\* std::stod on an unsigned text of the form digits[.digits]: whether it
\* converts and whether the value is zero
stod(s) ==
  LET ip == DigitPrefix(s)
      rest == SubSeq(s, Len(ip) + 1, Len(s))
      fp == IF rest # <<>> /\ Head(rest) = "." THEN DigitPrefix(Tail(rest)) ELSE <<>>
  IN IF ip = <<>> /\ fp = <<>> THEN [ok |-> FALSE, zero |-> FALSE]
     ELSE [ok |-> TRUE, zero |-> \A i \in 1..Len(ip \o fp) : (ip \o fp)[i] = "0"]

\* A slip in line 140: the probes run whatever the duration is.
DurationUse_always_probes(duration_str) == "probes"

\* detect_crop_ffmpeg, lines 130-140: what becomes of the duration text
DurationUse(duration_str) ==
  LET duration_is_zero ==
        IF duration_str = <<>> THEN TRUE
        ELSE IF stod(duration_str).ok THEN stod(duration_str).zero ELSE TRUE
  IN IF duration_is_zero THEN "invalid_rect" ELSE "probes"

\* handle_video_phase1, lines 359-373: what becomes of width and height
DimsUse(width_str, height_str) ==
  IF width_str # <<>> /\ height_str # <<>>
    THEN IF stoi(width_str).ok /\ stoi(height_str).ok THEN "dimensions" ELSE "error_dimensions"
    ELSE "error_dimensions"

\* lines 116-119: DECODER_MAP
DECODER_MAP ==
  { <<<<"h", "2", "6", "4">>, "h264_cuvid">>,
    <<<<"h", "e", "v", "c">>, "hevc_cuvid">>,
    <<<<"v", "p", "9">>, "vp9_cuvid">>,
    <<<<"a", "v", "1">>, "av1_cuvid">>,
    <<<<"m", "p", "e", "g", "2", "v", "i", "d", "e", "o">>, "mpeg2_cuvid">> }

\* crop_gpu, lines 301-305: the cuvid_decoder chosen for a codec name
CodecUse(codec_name) ==
  IF \E e \in DECODER_MAP : e[1] = codec_name
    THEN (CHOOSE e \in DECODER_MAP : e[1] = codec_name)[2]
    ELSE ""

\* ffprobe_val is not part of this run
FpIdle ==
  /\ fp_pc = "idle" /\ fp_key = "duration" /\ fp_popen = TRUE /\ fp_exit = "zero"
  /\ fp_out = <<>> /\ fp_out2 = <<>> /\ fp_val = <<>> /\ fp_val2 = <<>> /\ fp_use = "none"

(***************************************************************************)
(* detect_image_crop_cv, lines 416-464.  An image is its size and the      *)
(* columns and rows for which is_blank_line (lines 421-453) is false.      *)
(***************************************************************************)
Image(cols, rows, nonblank_cols, nonblank_rows) ==
  [cols |-> cols, rows |-> rows, nonblank_cols |-> nonblank_cols, nonblank_rows |-> nonblank_rows]

\* lines 457 and 459: the first index from i upwards that is not blank, or
\* the initial value n
RECURSIVE FirstNonBlank(_, _, _)
FirstNonBlank(nonblank, i, n) ==
  IF i >= n THEN n
  ELSE IF i \in nonblank THEN i ELSE FirstNonBlank(nonblank, i + 1, n)

\* lines 458 and 460: the last index from i downwards that is not blank, or
\* the initial value 0
RECURSIVE LastNonBlank(_, _)
LastNonBlank(nonblank, i) ==
  IF i < 0 THEN 0
  ELSE IF i \in nonblank THEN i ELSE LastNonBlank(nonblank, i - 1)

\* A slip in line 462: the test for "nothing found" is missing.
NothingFound_never(x0, x1, y0, y1) == FALSE

\* line 462
NothingFound(x0, x1, y0, y1) == x0 >= x1 \/ y0 >= y1

detect_image_crop_cv(img) ==
  IF img.cols = 0 \/ img.rows = 0 THEN InvalidRect
  ELSE LET x0 == FirstNonBlank(img.nonblank_cols, 0, img.cols)
           x1 == LastNonBlank(img.nonblank_cols, img.cols - 1)
           y0 == FirstNonBlank(img.nonblank_rows, 0, img.rows)
           y1 == LastNonBlank(img.nonblank_rows, img.rows - 1)
       IN IF NothingFound(x0, x1, y0, y1) THEN InvalidRect
          ELSE CropRect(x0, y0, x1 - x0 + 1, y1 - y0 + 1, TRUE)

\* no detector is called on its own in this run
DtIdle == dt_pc = "idle" /\ dt_in = <<>> /\ dt_out = InvalidRect

\* no call site of encode_write_frame has been reached
NoCallSite == [site |-> "none", filt_pts |-> 0, orig_pts |-> 0, pts |-> 0]

\* encode_write_frame has not been called: ret as line 222 initialises it;
\* accepted is whether avcodec_send_frame (line 230) answered 0, that is, took
\* the frame
NoEncodeCall ==
  [ret |-> "0", last |-> <<"none", "0">>, emitted |-> <<>>, written |-> <<>>, result |-> "none",
   call |-> NoCallSite, accepted |-> FALSE]

\* encode_write_frame is not part of this run
EwIdle == ew_pc = "idle" /\ ew_arg = <<>> /\ ew_st = NoEncodeCall

\* a directory that does not exist
NoDirectory == [exists |-> FALSE, files |-> {}]

\* extract_frames_for_video is not part of this run
ExIdle ==
  /\ ex_pc = "idle" /\ video = <<>> /\ scene_kept = 0 /\ final_frame_idx = 1
  /\ total_frames = 0 /\ step = 0 /\ current_fallback_count = 0 /\ fb_i = 0
  /\ fb_written = <<>> /\ fb_end = "none"
  /\ scene_tmp = NoDirectory /\ scene_pngs = <<>> /\ ex_exit = "none"
  /\ out_dir = <<>>

\* no ffmpeg command has been issued by crop_gpu
NoCommand == [branch |-> "none", args |-> <<>>]

NoCrop == [rect |-> InvalidRect, crop_w |-> 0, crop_h |-> 0, called |-> FALSE,
           cmd |-> NoCommand]

(***************************************************************************)
(* crop/main.cpp: the references and containers main holds.                *)
(*                                                                         *)
(* Every pointer of main that can own a hardware-context reference         *)
(* (AVBufferRef), a container or a codec context is a key of res.ptr; its  *)
(* value is "null" or the object it points to, named after the pointer     *)
(* that first received it.  res.live is the set of objects not yet         *)
(* released; res.acq and res.rel count acquisitions and releases per kind; *)
(* res.dbl records a release through a pointer whose object was already    *)
(* released.                                                               *)
(***************************************************************************)
HwRefPtrs ==
  { "hw_device_ctx_ref_global",                 \* line 399
    "decoder_ctx.hw_device_ctx",                \* line 402
    "frames_ref",                               \* line 421
    "decoder_ctx.hw_frames_ctx",                \* lines 413, 440
    "decoder_hw_frames_ctx_ref",                \* line 452
    "temp_dec_ctx_for_filter.hw_frames_ctx",    \* line 563
    "src_par.hw_frames_ctx",                    \* line 140
    "new_enc_hw_frames_ctx",                    \* line 591
    "encoder_ctx_global.hw_frames_ctx",         \* line 604
    "frame.hw_frames_ctx",                      \* lines 664, 760
    "filt_frame.hw_frames_ctx" }                \* lines 719, 779, 801

ContainerPtrs ==
  { "input_format_ctx",                         \* line 335
    "output_format_ctx_global",                 \* line 483
    "output_format_ctx_global.pb" }             \* line 623

ContextPtrs ==
  { "decoder_ctx",                              \* line 375
    "encoder_ctx_global",                       \* line 493
    "temp_dec_ctx_for_filter" }                 \* line 548

\* the filter graph and the locals of init_filters
FilterPtrs ==
  { "filter_graph_global",                      \* line 81
    "outputs",                                  \* line 73
    "inputs",                                   \* line 74
    "src_par" }                                 \* line 120

PtrNames == HwRefPtrs \cup ContainerPtrs \cup ContextPtrs \cup FilterPtrs

Kinds == {"hwref", "container", "context", "filter"}

Kind(p) ==
  IF p \in HwRefPtrs THEN "hwref"
  ELSE IF p \in ContainerPtrs THEN "container"
  ELSE IF p \in ContextPtrs THEN "context" ELSE "filter"

\* nothing acquired: the pointers as main declares them (lines 61-66, 323-331)
EmptyRes ==
  [ ptr  |-> [p \in PtrNames |-> "null"],
    live |-> {},
    acq  |-> [kd \in Kinds |-> 0],
    rel  |-> [kd \in Kinds |-> 0],
    dbl  |-> FALSE ]

IsSet(r, p) == r.ptr[p] # "null"

\* p = av_buffer_ref(...), av_hwframe_ctx_alloc(...), an open or an alloc that
\* succeeded: p owns a new object
Ref(r, p) ==
  [r EXCEPT !.ptr[p] = p, !.live = @ \cup {p}, !.acq[Kind(p)] = @ + 1]

\* av_buffer_unref(&p), avformat_close_input(&p), avio_closep(&p),
\* avcodec_free_context(&p): releases what p points to and sets p to NULL; a
\* no-op on NULL
Unref(r, p) ==
  IF r.ptr[p] = "null" THEN r
  ELSE [r EXCEPT !.ptr[p] = "null",
                 !.live = @ \ {r.ptr[p]},
                 !.rel[Kind(p)] = @ + 1,
                 !.dbl = @ \/ r.ptr[p] \notin r.live]

\* avformat_free_context(p): releases what p points to; p keeps its value
FreeByValue(r, p) ==
  IF r.ptr[p] = "null" THEN r
  ELSE [r EXCEPT !.live = @ \ {r.ptr[p]},
                 !.rel[Kind(p)] = @ + 1,
                 !.dbl = @ \/ r.ptr[p] \notin r.live]

\* to = from: the pointer is copied, no reference is taken; from is a local
\* that is not used again
Move(r, from, to) ==
  [r EXCEPT !.ptr[to] = r.ptr[from], !.ptr[from] = "null"]

\* avcodec_free_context(&ctx): libavcodec unreferences the context's
\* hw_frames_ctx and hw_device_ctx, then frees the context
FreeContext(r, ctx, fields) ==
  LET RECURSIVE UnrefAll(_, _)
      UnrefAll(rr, fs) ==
        IF fs = {} THEN rr
        ELSE LET f == CHOOSE x \in fs : TRUE
             IN UnrefAll(Unref(rr, f), fs \ {f})
  IN Unref(UnrefAll(r, fields), ctx)

\* AV_NOPTS_VALUE is INT64_MIN, below every timestamp; the model takes the
\* value just below its timestamps 0..MaxPts
NOPTS == 0 - 1

Timestamps == 0..MaxPts

\* main of crop/main.cpp is not part of a run of the other specifications.
\* main is not inside the block of lines 419-443
NoPool == [format |-> "none", sw_format |-> "none", initial_pool_size |-> 0,
           width |-> 0, height |-> 0]

NoSize == [width |-> 0, height |-> 0]

\* the sizes of the videos the decoder is opened for
DecoderSizes == {[width |-> 1920, height |-> 1080], [width |-> 640, height |-> 360]}

\* A slip in line 433: the pool is left at its default size.
FramesCtx_default_size(dec) ==
  [format |-> "AV_PIX_FMT_CUDA", sw_format |-> "AV_PIX_FMT_NV12", initial_pool_size |-> 0,
   width |-> dec.width, height |-> dec.height]

\* lines 427-433: the parameters main fills into the pool it allocates
FramesCtx(dec) ==
  [format |-> "AV_PIX_FMT_CUDA", sw_format |-> "AV_PIX_FMT_NV12", initial_pool_size |-> 20,
   width |-> dec.width, height |-> dec.height]

\* main is not between the decoder lookup and the decoder context
NoSelection == [made |-> FALSE, streams |-> <<>>, by_name |-> FALSE, by_id |-> FALSE,
                name |-> ""]

\* nothing has happened to the job yet:
\*   fatal    a send / receive operation of the main loop (lines 645-744)
\*            returned an unexpected negative result
\*   late     a frame was decoded after that
\*   dec_eof  the decoder answered AVERROR_EOF while being flushed
\*   filt_eof the buffer sink answered AVERROR_EOF while being flushed
\*   trailer  av_write_trailer was called (line 815)
\*   released what the cleanup of lines 826-862 released, in order
\*   frames_ctx  the local frames_ctx of the block of lines 419-443 while
\*               main is inside that block
\*   dec         decoder_ctx->width and height as that block reads them
\*   sel         the streams of the input, what the two decoder lookups of
\*               lines 359 and 363 answer and the name of the decoder found,
\*               until the decoder context is allocated
NewJob ==
  [fatal |-> FALSE, late |-> FALSE, dec_eof |-> FALSE, filt_eof |-> FALSE, trailer |-> FALSE,
   released |-> <<>>, frames_ctx |-> NoPool, dec |-> NoSize, sel |-> NoSelection]

PlIdle ==
  /\ job = NewJob
  /\ pl_pc = "idle" /\ decoder = "none" /\ pix_fmt_cuda = FALSE /\ nofile = FALSE
  /\ res = EmptyRes /\ ret = "0"
  /\ n_decoded = 0 /\ pending = 0
  /\ frame_pts = NOPTS /\ last_input_pts = NOPTS /\ hist = <<>>
  /\ exit_status = "none"

\* main has not returned: no exit status yet
NotReturned == 0 - 1

\* The orchestrator is not part of a run of SpecPhase1.
BatchIdle ==
  /\ m_pc = "idle" /\ m_ret = NotReturned
  /\ input_dir = FALSE /\ cropped_dir = FALSE
  /\ vids = <<>> /\ next_v = 1
  /\ futures = <<>> /\ scan_i = 1 /\ one_completed = FALSE /\ drain_i = 1
  /\ task = <<>> /\ result = <<>> /\ file = <<>>
  /\ cropped_videos = <<>> /\ p2_i = 1
  /\ extracting = {} /\ p2_result = <<>>

H1Init ==
  /\ BatchIdle
  /\ PlIdle
  /\ GcIdle /\ FpIdle /\ DtIdle /\ ExIdle /\ EwIdle
  /\ h_pc = "dims"
  /\ src \in Sources
  /\ ow = 0 /\ oh = 0
  /\ rects = <<>>
  /\ k = 0
  /\ rect = InvalidRect
  /\ alt_rect = InvalidRect
  /\ mode = "ffmpeg"
  /\ crop_arg = NoCrop
  /\ crop_ret = "notrun"
  /\ dst_file = "absent"
  /\ status = "running"

\* A call of execute_command whose popen() fails throws std::runtime_error;
\* nothing in handle_video_phase1 catches it outside the crop_gpu try block.
H_Throw(from) ==
  /\ h_pc = from
  /\ h_pc' = "returned"
  /\ status' = "threw"
  /\ UNCHANGED <<src, ow, oh, rects, k, rect, alt_rect, mode, crop_arg, crop_ret, dst_file>>
  /\ UNCHANGED notH1Vars

\* lines 359-373: probe width and height
H_ProbeDims ==
  /\ h_pc = "dims"
  /\ \E outcome \in {"ok", "absent", "unparseable"} :
       IF outcome = "ok"
         THEN /\ ow' = src.ow /\ oh' = src.oh
              /\ h_pc' = "duration"
              /\ UNCHANGED status
         ELSE /\ status' = "error_dimensions"
              /\ h_pc' = "returned"
              /\ UNCHANGED <<ow, oh>>
  /\ UNCHANGED <<src, rects, k, rect, alt_rect, mode, crop_arg, crop_ret, dst_file>>
  /\ UNCHANGED notH1Vars

H_ProbeDimsThrows == H_Throw("dims")

\* detect_crop_ffmpeg, lines 130-140: the duration probe
D_Duration ==
  /\ h_pc = "duration"
  /\ \E outcome \in {"ok", "absent", "unparseable", "zero"} :
       IF outcome = "ok"
         THEN /\ h_pc' = "probe" /\ k' = 0 /\ rects' = <<>> /\ UNCHANGED rect
         ELSE /\ h_pc' = "check_ffmpeg" /\ rect' = InvalidRect /\ UNCHANGED <<k, rects>>
  /\ UNCHANGED <<src, ow, oh, alt_rect, mode, crop_arg, crop_ret, dst_file, status>>
  /\ UNCHANGED notH1Vars

D_DurationThrows == H_Throw("duration")

\* detect_crop_ffmpeg, lines 143-176: one probe; the last match is pushed
D_Probe ==
  /\ h_pc = "probe"
  /\ k < FFMPEG_PROBES
  /\ \/ \E r \in ProbeRects(src) : rects' = Append(rects, r)
     \/ rects' = rects
  /\ k' = k + 1
  /\ UNCHANGED <<h_pc, src, ow, oh, rect, alt_rect, mode, crop_arg, crop_ret, dst_file, status>>
  /\ UNCHANGED notH1Vars

D_ProbeThrows == H_Throw("probe") /\ k < FFMPEG_PROBES

\* detect_crop_ffmpeg, lines 178-201, and the assignment of line 379
D_Aggregate ==
  /\ h_pc = "probe"
  /\ k = FFMPEG_PROBES
  /\ rect' = AggregateProbes(rects)
  /\ mode' = "ffmpeg"
  /\ h_pc' = "check_ffmpeg"
  /\ UNCHANGED <<src, ow, oh, rects, k, alt_rect, crop_arg, crop_ret, dst_file, status>>
  /\ UNCHANGED notH1Vars

\* A slip in line 382: Strategy B is tried whatever Strategy A returned.
TriesGradient_always(r, o_w, o_h) == TRUE

\* the test of line 382 that guards the call of detect_gradient
TriesGradient(r, o_w, o_h) == ~is_good_crop(r, o_w, o_h)

\* line 382
H_CheckFfmpeg ==
  /\ h_pc = "check_ffmpeg"
  /\ h_pc' = IF TriesGradient(rect, ow, oh) THEN "gradient" ELSE "apply"
  /\ rects' = <<>> /\ k' = 0
  /\ UNCHANGED <<src, ow, oh, rect, alt_rect, mode, crop_arg, crop_ret, dst_file, status>>
  /\ UNCHANGED notH1Vars

\* lines 384-391: detect_gradient and the second goodness test
H_Gradient ==
  /\ h_pc = "gradient"
  /\ \E g \in GradientRects(src) \cup {InvalidRect} :
       /\ alt_rect' = g
       /\ IF is_good_crop(g, ow, oh)
            THEN rect' = g /\ mode' = "gradient"
            ELSE UNCHANGED <<rect, mode>>
  /\ h_pc' = "apply"
  /\ UNCHANGED <<src, ow, oh, rects, k, crop_arg, crop_ret, dst_file, status>>
  /\ UNCHANGED notH1Vars

H_GradientThrows == H_Throw("gradient")

\* A slip in line 394: only the valid flag is looked at.
ApplyGuard_valid_only(r, o_w, o_h) == r.valid

\* the guard of line 394
ApplyGuard(r, o_w, o_h) == r.valid /\ is_good_crop(r, o_w, o_h)

\* line 394, and crop_gpu lines 297-299
H_Apply ==
  /\ h_pc = "apply"
  /\ IF ApplyGuard(rect, ow, oh)
       THEN /\ h_pc' = "crop_gpu"
            /\ crop_arg' = [rect |-> rect, crop_w |-> make_even(rect.w),
                            crop_h |-> make_even(rect.h), called |-> TRUE,
                            cmd |-> NoCommand]
       ELSE /\ h_pc' = "copy"
            /\ UNCHANGED crop_arg
  /\ UNCHANGED <<src, ow, oh, rects, k, rect, alt_rect, mode, crop_ret, dst_file, status>>
  /\ UNCHANGED notH1Vars

\* lines 311-340: the crop that the ffmpeg command of crop_gpu carries.
\* has_crop_cuda is HAS_CROP_CUDA (line 108), has_cuvid says that DECODER_MAP
\* names a cuvid decoder for the codec (lines 302-305).
\*   crop_cuda  -vf crop_cuda=w=:h=:x=:y=      (line 333)
\*   -crop      -crop top x bottom x left x right, a decoder option (line 323)
\*   crop       -vf crop=w:h:x:y               (line 338)
CropCommand(has_crop_cuda, has_cuvid, r, crop_w, crop_h, o_w, o_h) ==
  IF has_crop_cuda
    THEN [branch |-> "crop_cuda", args |-> <<crop_w, crop_h, r.x, r.y>>]
  ELSE IF has_cuvid
    THEN [branch |-> "-crop",
          args |-> <<r.y, o_h - (r.y + r.h), r.x, o_w - (r.x + r.w)>>]
  ELSE [branch |-> "crop", args |-> <<crop_w, crop_h, r.x, r.y>>]

\* crop_gpu, lines 301-350, and lines 399-401.  exit 0 means ffmpeg wrote
\* dst_path; a nonzero exit (or a failing codec probe) throws and may leave
\* a partial file behind.
H_CropGpu ==
  /\ h_pc = "crop_gpu"
  /\ \/ /\ \E has_crop_cuda, has_cuvid \in BOOLEAN :
             crop_arg' = [crop_arg EXCEPT !.cmd =
                            CropCommand(has_crop_cuda, has_cuvid, crop_arg.rect,
                                        crop_arg.crop_w, crop_arg.crop_h, ow, oh)]
        /\ \/ /\ crop_ret' = "zero"
              /\ dst_file' = "cropped"
              /\ status' = IF mode = "ffmpeg" THEN "crop[ffmpeg]" ELSE "crop[gradient]"
              /\ h_pc' = "returned"
           \/ /\ crop_ret' = "nonzero"
              /\ dst_file' \in {dst_file, "partial"}
              /\ h_pc' = "copy_after_error"
              /\ UNCHANGED status
     \/ /\ UNCHANGED <<crop_ret, dst_file, status, crop_arg>>   \* ffprobe_val(codec_name) threw
        /\ h_pc' = "copy_after_error"
  /\ UNCHANGED <<src, ow, oh, rects, k, rect, alt_rect, mode>>
  /\ UNCHANGED notH1Vars

\* A slip in lines 403 / 408: the status is returned without the copy.
CopyReturn_no_copy(to_status) ==
  /\ dst_file' = dst_file
  /\ status' = to_status
  /\ h_pc' = "returned"

\* fs::copy_file of line 403 or 408: returns, or throws filesystem_error
CopyReturn(to_status) ==
  /\ dst_file' = "copy"
  /\ status' = to_status
  /\ h_pc' = "returned"

\* lines 400-404
H_CopyAfterError ==
  /\ h_pc = "copy_after_error"
  /\ CopyReturn("copy_after_error")
  /\ UNCHANGED <<src, ow, oh, rects, k, rect, alt_rect, mode, crop_arg, crop_ret>>
  /\ UNCHANGED notH1Vars

H_CopyAfterErrorThrows == H_Throw("copy_after_error")

\* lines 406-409
H_Copy ==
  /\ h_pc = "copy"
  /\ CopyReturn("copy")
  /\ UNCHANGED <<src, ow, oh, rects, k, rect, alt_rect, mode, crop_arg, crop_ret>>
  /\ UNCHANGED notH1Vars

H_CopyThrows == H_Throw("copy")

H1Next ==
  \/ H_ProbeDims \/ H_ProbeDimsThrows
  \/ D_Duration \/ D_DurationThrows
  \/ D_Probe \/ D_ProbeThrows \/ D_Aggregate
  \/ H_CheckFfmpeg
  \/ H_Gradient \/ H_GradientThrows
  \/ H_Apply
  \/ H_CropGpu
  \/ H_CopyAfterError \/ H_CopyAfterErrorThrows
  \/ H_Copy \/ H_CopyThrows

SpecPhase1 == H1Init /\ [][H1Next]_vars

(***************************************************************************)
(* phase1_crop, phase2_extract and main, lines 626-789.  MAX_WORKERS is 3, *)
(* so phase1_crop takes the std::async branch of line 665.  A worker       *)
(* thread runs handle_video_phase1 to one of the ends SpecPhase1 reaches:  *)
(* a status with the output file written, error_dimensions with no file,   *)
(* or an exception with no file or a partial one.                          *)
(***************************************************************************)
Phase1Outcomes ==
  { [r |-> "ok", f |-> "present"],
    [r |-> "error_dimensions", f |-> "absent"],
    [r |-> "threw", f |-> "absent"],
    [r |-> "threw", f |-> "partial"] }

\* how SpecPhase1's end states read as outcomes of a worker
OutcomeOf(st, dst) ==
  [r |-> IF st \in {"crop[ffmpeg]", "crop[gradient]", "copy", "copy_after_error"}
           THEN "ok" ELSE st,
   f |-> IF dst \in {"cropped", "copy"} THEN "present" ELSE dst]

\* handle_video_phase1 is not part of a run of SpecBatch.
H1Idle ==
  /\ h_pc = "idle" /\ src = ScenarioSrc /\ ow = 0 /\ oh = 0
  /\ rects = <<>> /\ k = 0 /\ rect = InvalidRect /\ alt_rect = InvalidRect
  /\ mode = "ffmpeg" /\ crop_arg = NoCrop /\ crop_ret = "notrun"
  /\ dst_file = "absent" /\ status = "running"

\* line 628: the extensions phase1_crop accepts
extensions == <<".mp4", ".mkv", ".mov", ".avi", ".webm">>

\* a path as directory, stem and extension
Path(dir, id, ext) == [dir |-> dir, id |-> id, ext |-> ext]

\* line 376: CROPPED_DIR / src_path_fs.filename() keeps stem and extension
DstPath(p) == Path("CROPPED_DIR", p.id, p.ext)

\* line 703: entry.path().extension() == ".mp4"
IsMp4(p) == p.ext = ".mp4"

\* The directories the model enumerates: every file is NAME.mp4 (stride 0),
\* or the extensions run through the accepted ones in turn (stride 1).
InputPath(v, stride) == Path("INPUT_DIR", v, extensions[(((v - 1) * stride) % Len(extensions)) + 1])

Videos == 1..Len(vids)

BInit ==
  /\ H1Idle
  /\ PlIdle
  /\ GcIdle /\ FpIdle /\ DtIdle /\ ExIdle /\ EwIdle
  /\ m_pc = "check_tools" /\ m_ret = NotReturned
  /\ input_dir \in BOOLEAN
  /\ cropped_dir \in BOOLEAN
  /\ \E n \in 0..MaxVideos : \E stride \in {0, 1} :
       /\ vids = [v \in 1..n |-> InputPath(v, stride)]
       /\ task = [v \in 1..n |-> "notstarted"]
       /\ result = [v \in 1..n |-> "none"]
       /\ file = [v \in 1..n |-> "absent"]
       /\ p2_result = [v \in 1..n |-> "none"]
  /\ next_v = 1
  /\ futures = <<>> /\ scan_i = 1 /\ one_completed = FALSE /\ drain_i = 1
  /\ cropped_videos = <<>> /\ p2_i = 1
  /\ extracting = {}

\* main, lines 761-768: ffmpeg and ffprobe must answer -version
M_CheckTools ==
  /\ m_pc = "check_tools"
  /\ \/ m_pc' = "p1_enum" /\ UNCHANGED m_ret
     \/ m_pc' = "exit" /\ m_ret' = 1
  /\ UNCHANGED <<input_dir, cropped_dir, vids, next_v, futures, scan_i, one_completed,
                 drain_i, task, result, file, cropped_videos, p2_i, extracting, p2_result>>
  /\ UNCHANGED notBVars

\* phase1_crop, lines 627-652: enumerate INPUT_DIR, create CROPPED_DIR
P1_Enumerate ==
  /\ m_pc = "p1_enum"
  /\ IF ~input_dir \/ vids = <<>>
       THEN m_pc' = "p2_enum" /\ UNCHANGED cropped_dir
       ELSE m_pc' = "p1_loop" /\ cropped_dir' = TRUE
  /\ UNCHANGED <<m_ret, input_dir, vids, next_v, futures, scan_i, one_completed,
                 drain_i, task, result, file, cropped_videos, p2_i, extracting, p2_result>>
  /\ UNCHANGED notBVars

\* A slip in line 668: > instead of >=.
Saturated_off_by_one(fs) == Len(fs) > MAX_WORKERS

\* line 668: futures.size() >= MAX_WORKERS
Saturated(fs) == Len(fs) >= MAX_WORKERS

\* lines 667-671: head of the submission loop
P1_LoopHead ==
  /\ m_pc = "p1_loop"
  /\ IF next_v > Len(vids)
       THEN /\ m_pc' = "p1_drain" /\ drain_i' = 1
            /\ UNCHANGED <<scan_i, one_completed>>
       ELSE IF Saturated(futures)
         THEN /\ m_pc' = "p1_poll" /\ scan_i' = 1 /\ one_completed' = FALSE
              /\ UNCHANGED drain_i
         ELSE /\ m_pc' = "p1_submit"
              /\ UNCHANGED <<scan_i, one_completed, drain_i>>
  /\ UNCHANGED <<m_ret, input_dir, cropped_dir, vids, next_v, futures, task, result,
                 file, cropped_videos, p2_i, extracting, p2_result>>
  /\ UNCHANGED notBVars

\* wait_for(0s) == future_status::ready
Ready(t) == t = "ready"

\* A slip in lines 674 / 687: the try block without its catch.
TryGet_uncaught(outcome) == IF outcome = "threw" THEN "escapes" ELSE "value"

\* lines 674 and 687: try { fut.get(); } catch (const std::exception&) { log }
\* Every exception handle_video_phase1 throws derives from std::exception.
TryGet(outcome) == IF outcome = "threw" THEN "caught" ELSE "value"

\* an exception that leaves phase1_crop or phase2_extract reaches the catch
\* of main (line 779), which returns 1
Abort ==
  /\ m_pc' = "exit"
  /\ m_ret' = 1

\* A slip in line 675: the collected future stays in the vector.
RemoveAt_keeps(fs, i) == fs

\* line 675: futures.erase(futures.begin() + i)
RemoveAt(fs, i) == [j \in 1..(Len(fs) - 1) |-> IF j < i THEN fs[j] ELSE fs[j + 1]]

\* lines 672-679: one iteration of the polling for loop
P1_PollStep ==
  /\ m_pc = "p1_poll"
  /\ scan_i <= Len(futures)
  /\ IF Ready(task[futures[scan_i]])
       THEN /\ task' = [task EXCEPT ![futures[scan_i]] = "collected"]
            /\ IF TryGet(result[futures[scan_i]]) = "escapes"
                 THEN Abort /\ UNCHANGED <<futures, scan_i, one_completed>>
                 ELSE /\ futures' = RemoveAt(futures, scan_i)
                      /\ one_completed' = TRUE
                      /\ m_pc' = "p1_submit"
                      /\ UNCHANGED <<m_ret, scan_i>>
       ELSE /\ scan_i' = scan_i + 1
            /\ UNCHANGED <<m_pc, m_ret, futures, one_completed, task>>
  /\ UNCHANGED <<input_dir, cropped_dir, vids, next_v, drain_i, result, file,
                 cropped_videos, p2_i, extracting, p2_result>>
  /\ UNCHANGED notBVars

\* line 680: nothing was ready in this pass; sleep 100 ms and scan again
P1_PollSleep ==
  /\ m_pc = "p1_poll"
  /\ scan_i > Len(futures)
  /\ ~one_completed
  /\ scan_i' = 1
  /\ UNCHANGED <<m_pc, m_ret, input_dir, cropped_dir, vids, next_v, futures,
                 one_completed, drain_i, task, result, file, cropped_videos, p2_i,
                 extracting, p2_result>>
  /\ UNCHANGED notBVars

\* line 683: futures.push_back(std::async(std::launch::async, ...))
P1_Submit ==
  /\ m_pc = "p1_submit"
  /\ task' = [task EXCEPT ![vids[next_v].id] = "running"]
  /\ futures' = Append(futures, vids[next_v].id)
  /\ next_v' = next_v + 1
  /\ m_pc' = "p1_loop"
  /\ UNCHANGED <<m_ret, input_dir, cropped_dir, vids, scan_i, one_completed, drain_i,
                 result, file, cropped_videos, p2_i, extracting, p2_result>>
  /\ UNCHANGED notBVars

\* the worker thread of video v: handle_video_phase1 runs to its end
Worker(v) ==
  /\ task[v] = "running"
  /\ \E o \in Phase1Outcomes :
       /\ result' = [result EXCEPT ![v] = o.r]
       /\ file' = [file EXCEPT ![v] = o.f]
  /\ task' = [task EXCEPT ![v] = "ready"]
  /\ UNCHANGED <<m_pc, m_ret, input_dir, cropped_dir, vids, next_v, futures, scan_i,
                 one_completed, drain_i, cropped_videos, p2_i, extracting, p2_result>>
  /\ UNCHANGED notBVars

\* A slip in lines 686-688: only the first remaining future is waited for.
DrainDone_first_only(i, fs) == i > 1

\* line 686: the range-for over futures is over
DrainDone(i, fs) == i > Len(fs)

\* lines 686-688: fut.get() blocks until the task is ready
P1_Drain ==
  /\ m_pc = "p1_drain"
  /\ ~DrainDone(drain_i, futures)
  /\ Ready(task[futures[drain_i]])
  /\ task' = [task EXCEPT ![futures[drain_i]] = "collected"]
  /\ IF TryGet(result[futures[drain_i]]) = "escapes"
       THEN Abort /\ UNCHANGED drain_i
       ELSE drain_i' = drain_i + 1 /\ UNCHANGED <<m_pc, m_ret>>
  /\ UNCHANGED <<input_dir, cropped_dir, vids, next_v, futures, scan_i, one_completed,
                 result, file, cropped_videos, p2_i, extracting, p2_result>>
  /\ UNCHANGED notBVars

\* lines 689-694: phase1_crop returns, main goes on to phase2_extract
P1_Return ==
  /\ m_pc = "p1_drain"
  /\ DrainDone(drain_i, futures)
  /\ m_pc' = "p2_enum"
  /\ futures' = <<>>
  /\ UNCHANGED <<m_ret, input_dir, cropped_dir, vids, next_v, scan_i, one_completed,
                 drain_i, task, result, file, cropped_videos, p2_i, extracting, p2_result>>
  /\ UNCHANGED notBVars

\* the videos of a set, in ascending order (std::sort, line 707)
RECURSIVE Sorted(_)
Sorted(S) ==
  IF S = {} THEN <<>>
  ELSE LET m == CHOOSE x \in S : \A y \in S : x <= y
       IN <<m>> \o Sorted(S \ {m})

\* lines 697-717: enumerate the regular .mp4 files of CROPPED_DIR
P2_Enumerate ==
  /\ m_pc = "p2_enum"
  /\ IF ~cropped_dir
       THEN /\ m_pc' = "exit" /\ m_ret' = 0
            /\ UNCHANGED cropped_videos
       ELSE LET found == Sorted({v \in Videos : file[v] # "absent" /\ IsMp4(DstPath(vids[v]))})
            IN /\ cropped_videos' = found
               /\ IF found = <<>>
                    THEN m_pc' = "exit" /\ m_ret' = 0
                    ELSE m_pc' = "p2_loop" /\ UNCHANGED m_ret
  /\ p2_i' = 1
  /\ UNCHANGED <<input_dir, cropped_dir, vids, next_v, futures, scan_i, one_completed,
                 drain_i, task, result, file, extracting, p2_result>>
  /\ UNCHANGED notBVars

\* line 724-726: the next video enters extract_frames_for_video
P2_Start ==
  /\ m_pc = "p2_loop"
  /\ p2_i <= Len(cropped_videos)
  /\ extracting' = extracting \cup {cropped_videos[p2_i]}
  /\ m_pc' = "p2_extract"
  /\ UNCHANGED <<m_ret, input_dir, cropped_dir, vids, next_v, futures, scan_i,
                 one_completed, drain_i, task, result, file, cropped_videos, p2_i,
                 p2_result>>
  /\ UNCHANGED notBVars

\* A slip in lines 725-729: the try block without its catch.
TryExtract_uncaught(how) == IF how = "threw" THEN "escapes" ELSE "value"

\* lines 725-729: try { extract_frames_for_video } catch (std::exception&)
TryExtract(how) == IF how = "threw" THEN "caught" ELSE "value"

\* lines 726-729: extract_frames_for_video returns or throws
P2_Finish ==
  /\ m_pc = "p2_extract"
  /\ \E how \in {"returned", "threw"} :
       /\ p2_result' = [p2_result EXCEPT ![cropped_videos[p2_i]] = how]
       /\ IF TryExtract(how) = "escapes"
            THEN Abort /\ UNCHANGED p2_i
            ELSE m_pc' = "p2_loop" /\ p2_i' = p2_i + 1 /\ UNCHANGED m_ret
  /\ extracting' = extracting \ {cropped_videos[p2_i]}
  /\ UNCHANGED <<input_dir, cropped_dir, vids, next_v, futures, scan_i, one_completed,
                 drain_i, task, result, file, cropped_videos>>
  /\ UNCHANGED notBVars

\* lines 732-755 and 784-788: phase2_extract returns (REMOVE_TMP is false),
\* main returns 0
P2_Return ==
  /\ m_pc = "p2_loop"
  /\ p2_i > Len(cropped_videos)
  /\ m_pc' = "exit"
  /\ m_ret' = 0
  /\ UNCHANGED <<input_dir, cropped_dir, vids, next_v, futures, scan_i, one_completed,
                 drain_i, task, result, file, cropped_videos, p2_i, extracting, p2_result>>
  /\ UNCHANGED notBVars

BNext ==
  \/ M_CheckTools
  \/ P1_Enumerate
  \/ P1_LoopHead
  \/ P1_PollStep
  \/ P1_PollSleep
  \/ P1_Submit
  \/ \E v \in Videos : Worker(v)
  \/ P1_Drain
  \/ P1_Return
  \/ P2_Enumerate
  \/ P2_Start
  \/ P2_Finish
  \/ P2_Return

SpecBatch == BInit /\ [][BNext]_vars

\* the steps of the orchestrator thread (main and the functions it calls)
Orchestrator ==
  \/ M_CheckTools
  \/ P1_Enumerate
  \/ P1_LoopHead
  \/ P1_PollStep
  \/ P1_PollSleep
  \/ P1_Submit
  \/ P1_Drain
  \/ P1_Return
  \/ P2_Enumerate
  \/ P2_Start
  \/ P2_Finish
  \/ P2_Return

\* The orchestrator thread is scheduled whenever it can take a step; nothing
\* is assumed about how long a worker takes.
SpecBatchFair == SpecBatch /\ WF_vars(Orchestrator)

\* the same, and every handle_video_phase1 task that was started comes to its
\* end
SpecBatchTasksEnd == SpecBatchFair /\ WF_vars(\E v \in Videos : Worker(v))

(***************************************************************************)
(* crop/main.cpp: main, with init_filters.  One action per block of main;  *)
(* every libav call that can fail does or does not.  A throw inside the    *)
(* try block lands in the catch clauses of lines 818-824, which set ret to *)
(* EXIT_FAILURE and fall through to the cleanup.                           *)
(***************************************************************************)
plSetup == <<decoder, pix_fmt_cuda, nofile>>
plLoop == <<n_decoded, pending, frame_pts, last_input_pts, hist, job>>

PInit ==
  /\ H1Idle
  /\ BatchIdle
  /\ GcIdle /\ FpIdle /\ DtIdle /\ ExIdle /\ EwIdle
  /\ job = NewJob
  /\ pl_pc = "args" /\ decoder = "none" /\ pix_fmt_cuda = FALSE /\ nofile = FALSE
  /\ res = EmptyRes /\ ret = "0"
  /\ n_decoded = 0 /\ pending = 0
  /\ frame_pts = NOPTS /\ last_input_pts = NOPTS /\ hist = <<>>
  /\ exit_status = "none"

\* throw std::runtime_error(...) with the pointers as r
Throw(r) ==
  /\ pl_pc' = "cleanup"
  /\ ret' = "EXIT_FAILURE"
  /\ res' = r

\* the block ran through with the pointers as r
Goto(pc, r) ==
  /\ pl_pc' = pc
  /\ res' = r
  /\ UNCHANGED ret

\* lines 281-318: the command line
PL_Args ==
  /\ pl_pc = "args"
  /\ \/ \E argc \in {1, 2} :
          /\ pl_pc' = "returned"
          /\ exit_status' = IF argc = 1 THEN "EXIT_SUCCESS" ELSE "EXIT_FAILURE"
     \/ pl_pc' = "returned" /\ exit_status' = "EXIT_FAILURE"
     \/ pl_pc' = "open_input" /\ UNCHANGED exit_status
  /\ UNCHANGED <<res, ret, plSetup, plLoop>>
  /\ UNCHANGED notPlVars

\* lines 335-340
PL_OpenInput ==
  /\ pl_pc = "open_input"
  /\ \/ Throw(res)
     \/ Throw(Ref(res, "input_format_ctx"))
     \/ Goto("find_decoder", Ref(res, "input_format_ctx"))
  /\ UNCHANGED <<plSetup, plLoop, exit_status>>
  /\ UNCHANGED notPlVars

\* the codec ids of the video streams: the four of the switch of lines
\* 351-358 and one it does not name
CodecIds == {"h264", "hevc", "vp9", "av1", "mpeg2video"}

\* the streams an input file can hold
StreamKinds ==
  {[codec_type |-> "audio", codec_id |-> "aac"]}
    \cup {[codec_type |-> "video", codec_id |-> c] : c \in CodecIds}

Inputs == UNION {[1..n -> StreamKinds] : n \in 0..MaxStreams}

\* A slip in lines 351-358: no codec id is mapped to a CUDA decoder.
preferred_decoder_name_none(codec_id) == ""

\* lines 349-358: the switch on codecpar->codec_id
preferred_decoder_name(codec_id) ==
  CASE codec_id = "h264" -> "h264_cuvid"
    [] codec_id = "hevc" -> "hevc_cuvid"
    [] codec_id = "vp9" -> "vp9_cuvid"
    [] codec_id = "av1" -> "av1_cuvid"
    [] OTHER -> ""

\* lines 345-346 and 370: the index of the first video stream, 0 if none
\* (the code's video_stream_index + 1)
FirstVideo(streams) ==
  LET V == {i \in 1..Len(streams) : streams[i].codec_type = "video"}
  IN IF V = {} THEN 0 ELSE CHOOSE i \in V : \A j \in V : i <= j

\* lines 343-372: the name of the decoder found, "" if the lookup throws;
\* by_name is whether avcodec_find_decoder_by_name knows the preferred name,
\* by_id whether avcodec_find_decoder knows a decoder for the codec id, whose
\* name is the codec's
FindDecoder(streams, by_name, by_id) ==
  LET i == FirstVideo(streams)
  IN IF i = 0 THEN ""
     ELSE LET codec_id == streams[i].codec_id
              name == preferred_decoder_name(codec_id)
              d1 == IF name # "" /\ by_name THEN name ELSE ""
          IN IF d1 # "" THEN d1
             ELSE IF by_id THEN codec_id ELSE ""

\* test/main.cpp lines 72-111: the same lookup as that program writes it
TestFindDecoder(streams, by_name, by_id) ==
  LET i == FirstVideo(streams)
  IN IF i = 0 THEN ""
     ELSE LET codec_id == streams[i].codec_id
              decoder_name_str == preferred_decoder_name(codec_id)
          IN IF decoder_name_str = ""
               THEN (IF by_id THEN codec_id ELSE "")
               ELSE IF by_name THEN decoder_name_str
                    ELSE IF by_id THEN codec_id ELSE ""

\* line 396: the decoder's name contains "cuvid" or "nvdec"
DecoderKind(name) ==
  IF name \in {"h264_cuvid", "hevc_cuvid", "vp9_cuvid", "av1_cuvid"} THEN "cuvid"
  ELSE "software"

\* lines 343-372: the preferred *_cuvid decoder, else the codec's default one
PL_FindDecoder ==
  /\ pl_pc = "find_decoder"
  /\ \E streams \in Inputs : \E by_name, by_id \in BOOLEAN :
       LET name == FindDecoder(streams, by_name, by_id)
       IN /\ job' = [job EXCEPT !.sel = [made |-> TRUE, streams |-> streams,
                                         by_name |-> by_name, by_id |-> by_id,
                                         name |-> name]]
          /\ IF name = ""
               THEN Throw(res) /\ UNCHANGED decoder
               ELSE Goto("alloc_decoder", res) /\ decoder' = DecoderKind(name)
  /\ UNCHANGED <<pix_fmt_cuda, nofile, n_decoded, pending, frame_pts, last_input_pts,
                 hist, exit_status>>
  /\ UNCHANGED notPlVars

\* lines 375-392
PL_AllocDecoder ==
  /\ pl_pc = "alloc_decoder"
  /\ \/ Throw(res)
     \/ Throw(Ref(res, "decoder_ctx"))
     \/ Goto("hw_device", Ref(res, "decoder_ctx"))
  /\ job' = [job EXCEPT !.sel = NoSelection]
  /\ UNCHANGED <<plSetup, n_decoded, pending, frame_pts, last_input_pts, hist,
                 exit_status>>
  /\ UNCHANGED notPlVars

\* line 396
is_hw_decoder == decoder = "cuvid"

\* lines 398-410
PL_HwDevice ==
  /\ pl_pc = "hw_device"
  /\ IF is_hw_decoder
       THEN \/ Throw(res)
            \/ Throw(Unref(Ref(res, "hw_device_ctx_ref_global"),
                           "hw_device_ctx_ref_global"))
            \/ Goto("open_decoder",
                    Ref(Ref(res, "hw_device_ctx_ref_global"),
                        "decoder_ctx.hw_device_ctx"))
       ELSE Goto("open_decoder", res)
  /\ UNCHANGED <<plSetup, plLoop, exit_status>>
  /\ UNCHANGED notPlVars

\* lines 413-415: avcodec_open2 fails, or opens the decoder; an opened
\* hardware decoder has or has not negotiated AV_PIX_FMT_CUDA through
\* get_hw_format, and libavcodec has or has not set hw_frames_ctx
PL_OpenDecoder ==
  /\ pl_pc = "open_decoder"
  /\ \/ Throw(res) /\ UNCHANGED pix_fmt_cuda
     \/ \E cuda \in (IF is_hw_decoder THEN BOOLEAN ELSE {FALSE}) :
          \E lib_set \in (IF cuda THEN BOOLEAN ELSE {FALSE}) :
            /\ pix_fmt_cuda' = cuda
            /\ Goto("manual_pool",
                    IF lib_set THEN Ref(res, "decoder_ctx.hw_frames_ctx") ELSE res)
  /\ UNCHANGED <<decoder, nofile, plLoop, exit_status>>
  /\ UNCHANGED notPlVars

\* line 419
NeedsManualPool(r) ==
  is_hw_decoder /\ pix_fmt_cuda /\ ~IsSet(r, "decoder_ctx.hw_frames_ctx")

\* lines 419-433: av_hwframe_ctx_alloc fails, or the pool is allocated and
\* its parameters are filled in
PL_ManualPool ==
  /\ pl_pc = "manual_pool"
  /\ IF NeedsManualPool(res)
       THEN \/ Throw(res) /\ UNCHANGED job
            \/ \E dec \in DecoderSizes :
                 /\ job' = [job EXCEPT !.dec = dec, !.frames_ctx = FramesCtx(dec)]
                 /\ Goto("attach_pool", Ref(res, "frames_ref"))
       ELSE Goto("extra_ref", res) /\ UNCHANGED job
  /\ UNCHANGED <<plSetup, exit_status>>
  /\ UNCHANGED <<n_decoded, pending, frame_pts, last_input_pts, hist>>
  /\ UNCHANGED notPlVars

\* lines 436-443: av_hwframe_ctx_init fails, or the pool is initialised and
\* attached by an av_buffer_ref whose result is not looked at; the block is
\* left and its locals are gone
PL_AttachPool ==
  /\ pl_pc = "attach_pool"
  /\ job' = [job EXCEPT !.dec = NoSize, !.frames_ctx = NoPool]
  /\ \/ Throw(Unref(res, "frames_ref"))
     \/ \E ref_ok \in BOOLEAN :
          Goto("extra_ref",
               Unref(IF ref_ok THEN Ref(res, "decoder_ctx.hw_frames_ctx") ELSE res,
                     "frames_ref"))
  /\ UNCHANGED <<plSetup, exit_status>>
  /\ UNCHANGED <<n_decoded, pending, frame_pts, last_input_pts, hist>>
  /\ UNCHANGED notPlVars

\* A slip in lines 448-449: the state of the decoder is not looked at.
HwDecodeReady_unchecked(r) == TRUE

\* lines 448-449: the decoder reports AV_PIX_FMT_CUDA and has a frame pool
HwDecodeReady(r) == pix_fmt_cuda /\ IsSet(r, "decoder_ctx.hw_frames_ctx")

\* lines 447-463
PL_ExtraRef ==
  /\ pl_pc = "extra_ref"
  /\ IF is_hw_decoder
       THEN IF HwDecodeReady(res)
              THEN \E ref_ok \in BOOLEAN :
                     Goto("output_ctx",
                          IF ref_ok THEN Ref(res, "decoder_hw_frames_ctx_ref") ELSE res)
              ELSE Throw(res)
       ELSE Goto("output_ctx", res)
  /\ UNCHANGED <<plSetup, plLoop, exit_status>>
  /\ UNCHANGED notPlVars

\* lines 483-491
PL_OutputCtx ==
  /\ pl_pc = "output_ctx"
  /\ \/ Throw(res) /\ UNCHANGED nofile
     \/ Throw(Ref(res, "output_format_ctx_global")) /\ nofile' \in BOOLEAN
     \/ Goto("alloc_encoder", Ref(res, "output_format_ctx_global")) /\ nofile' \in BOOLEAN
  /\ UNCHANGED <<decoder, pix_fmt_cuda, plLoop, exit_status>>
  /\ UNCHANGED notPlVars

\* lines 493-528
PL_AllocEncoder ==
  /\ pl_pc = "alloc_encoder"
  /\ \/ Throw(res)
     \/ Goto("temp_ctx", Ref(res, "encoder_ctx_global"))
  /\ UNCHANGED <<plSetup, plLoop, exit_status>>
  /\ UNCHANGED notPlVars

\* lines 548-574
PL_TempCtx ==
  /\ pl_pc = "temp_ctx"
  /\ \/ Throw(res)
     \/ LET r1 == Ref(res, "temp_dec_ctx_for_filter")
        IN IF is_hw_decoder /\ IsSet(r1, "decoder_ctx.hw_frames_ctx")
             THEN \/ Goto("init_filters", Ref(r1, "temp_dec_ctx_for_filter.hw_frames_ctx"))
                  \/ Throw(FreeContext(r1, "temp_dec_ctx_for_filter",
                                       {"temp_dec_ctx_for_filter.hw_frames_ctx"}))
             ELSE Goto("init_filters", r1)
  /\ UNCHANGED <<plSetup, plLoop, exit_status>>
  /\ UNCHANGED notPlVars

\* A slip in lines 209-215: init_filters returns without releasing the
\* reference src_par holds.
InitFiltersEnd_keeps_ref(r) == r

\* lines 209-217: the end: label of init_filters
InitFiltersEnd(r) ==
  LET r1 == IF IsSet(r, "src_par")
              THEN Unref(Unref(r, "src_par.hw_frames_ctx"), "src_par")
              ELSE r
  IN Unref(Unref(r1, "inputs"), "outputs")

\* A slip in line 139: the buffer source is set up without a frame pool.
PoolProvided_unchecked(r) == TRUE

\* line 139: dec_ctx_for_filter_props->hw_frames_ctx is set; the buffer source
\* is declared with pix_fmt AV_PIX_FMT_CUDA whatever the decoder (lines
\* 103-104), so line 138 always asks for it
PoolProvided(r) == IsSet(r, "temp_dec_ctx_for_filter.hw_frames_ctx")

\* lines 73-81: avfilter_inout_alloc twice and avfilter_graph_alloc, each of
\* which gives an object or NULL
FilterAllocs == [outputs : BOOLEAN, inputs : BOOLEAN, filter_graph_global : BOOLEAN]

\* init_filters, lines 70-219.  allocs: the allocations of lines 73-81;
\* early: a failure of lines 112-125 (the buffer source, src_par); ref_ok:
\* av_buffer_ref of line 140; late: a failure of lines 161-206.  The pixel
\* format of the context is never AV_PIX_FMT_NONE here (lines 533-546), and
\* the descriptor of AV_PIX_FMT_CUDA carries AV_PIX_FMT_FLAG_HWACCEL.
init_filters(r, allocs, early, ref_ok, late) ==
  LET r1 == IF allocs.outputs THEN Ref(r, "outputs") ELSE r
      r2 == IF allocs.inputs THEN Ref(r1, "inputs") ELSE r1
      r3 == IF allocs.filter_graph_global THEN Ref(r2, "filter_graph_global") ELSE r2
      r4 == Ref(r3, "src_par")
  IN IF ~(allocs.outputs /\ allocs.inputs /\ allocs.filter_graph_global)
       THEN [res |-> InitFiltersEnd(r3), ok |-> FALSE]
     ELSE IF early THEN [res |-> InitFiltersEnd(r3), ok |-> FALSE]
     ELSE IF ~PoolProvided(r)
       THEN [res |-> InitFiltersEnd(r4), ok |-> FALSE]
     ELSE IF ~ref_ok THEN [res |-> InitFiltersEnd(r4), ok |-> FALSE]
     ELSE [res |-> InitFiltersEnd(Ref(r4, "src_par.hw_frames_ctx")), ok |-> ~late]

\* lines 577-585: init_filters, then the temporary context is given up
PL_InitFilters ==
  /\ pl_pc = "init_filters"
  /\ \E allocs \in FilterAllocs : \E early, ref_ok, late \in BOOLEAN :
       LET o == init_filters(res, allocs, early, ref_ok, late)
           r1 == Unref(o.res, "temp_dec_ctx_for_filter.hw_frames_ctx")
           r2 == FreeContext(r1, "temp_dec_ctx_for_filter",
                             {"temp_dec_ctx_for_filter.hw_frames_ctx"})
       IN IF o.ok THEN Goto("encoder_pool", r2) ELSE Throw(r2)
  /\ UNCHANGED <<plSetup, plLoop, exit_status>>
  /\ UNCHANGED notPlVars

\* lines 589-606: encoder_ctx_global->pix_fmt is AV_PIX_FMT_CUDA (line 500)
PL_EncoderPool ==
  /\ pl_pc = "encoder_pool"
  /\ \/ Throw(res)
     \/ Throw(Unref(Ref(res, "new_enc_hw_frames_ctx"), "new_enc_hw_frames_ctx"))
     \/ Goto("open_encoder",
             Move(Ref(res, "new_enc_hw_frames_ctx"),
                  "new_enc_hw_frames_ctx", "encoder_ctx_global.hw_frames_ctx"))
  /\ UNCHANGED <<plSetup, plLoop, exit_status>>
  /\ UNCHANGED notPlVars

\* lines 609-619
PL_OpenEncoder ==
  /\ pl_pc = "open_encoder"
  /\ \/ Throw(res)
     \/ Goto("open_output", res)
  /\ UNCHANGED <<plSetup, plLoop, exit_status>>
  /\ UNCHANGED notPlVars

\* lines 622-630
PL_OpenOutput ==
  /\ pl_pc = "open_output"
  /\ IF nofile
       THEN \/ Throw(res)
            \/ Goto("alloc_frames", res)
       ELSE \/ Throw(res)
            \/ Throw(Ref(res, "output_format_ctx_global.pb"))
            \/ Goto("alloc_frames", Ref(res, "output_format_ctx_global.pb"))
  /\ UNCHANGED <<plSetup, plLoop, exit_status>>
  /\ UNCHANGED notPlVars

\* lines 633-642
PL_AllocFrames ==
  /\ pl_pc = "alloc_frames"
  /\ \/ Throw(res) /\ UNCHANGED last_input_pts
     \/ Goto("read", res) /\ last_input_pts' = NOPTS
  /\ UNCHANGED <<plSetup, n_decoded, pending, frame_pts, hist, exit_status, job>>
  /\ UNCHANGED notPlVars

\* lines 645-651 and 743: av_read_frame ends the loop, or delivers a packet of
\* another stream, or a video packet that avcodec_send_packet rejects or takes
PL_ReadPacket ==
  /\ pl_pc = "read"
  /\ \/ pl_pc' = "flush_dec" /\ UNCHANGED <<ret, job>>
     \/ UNCHANGED <<pl_pc, ret, job>>
     \/ pl_pc' = "flush_dec" /\ ret' = "ERR" /\ job' = [job EXCEPT !.fatal = TRUE]
     \/ pl_pc' = "receive" /\ ret' = "0" /\ UNCHANGED job
  /\ UNCHANGED <<res, plSetup, n_decoded, pending, frame_pts, last_input_pts, hist, exit_status>>
  /\ UNCHANGED notPlVars

\* lines 676-686: the timestamp of a frame decoded in the main loop
LoopPts(pts, pkt_dts, last) ==
  LET p1 == IF pts = NOPTS THEN pkt_dts ELSE pts
      p2 == IF p1 # NOPTS /\ last # NOPTS /\ p1 <= last THEN last + 1 ELSE p1
  IN [pts |-> p2, last |-> IF p1 # NOPTS THEN p2 ELSE last]

\* lines 763-766: the timestamp of a frame decoded while flushing
FlushPts(pts, last) ==
  IF pts = NOPTS /\ last # NOPTS
    THEN [pts |-> last + 1, last |-> last + 1]
    ELSE [pts |-> pts, last |-> last]

\* avcodec_receive_frame delivers a frame: it unreferences frame first, and
\* the frame comes with or without hw_frames_ctx
Decoded(r, lib_set) ==
  LET r0 == Unref(r, "frame.hw_frames_ctx")
  IN IF lib_set THEN Ref(r0, "frame.hw_frames_ctx") ELSE r0

\* lines 662-673 and 759-761: frame->format is AV_PIX_FMT_CUDA for the frames
\* of a decoder that negotiated it
RepairFrame(r, ref_ok) ==
  IF is_hw_decoder /\ pix_fmt_cuda /\ ~IsSet(r, "frame.hw_frames_ctx")
     /\ IsSet(r, "decoder_ctx.hw_frames_ctx") /\ ref_ok
    THEN Ref(r, "frame.hw_frames_ctx")
    ELSE r

\* av_buffersink_get_frame delivers a frame (the graph ends in hwupload_cuda),
\* lines 718-724, 778-780, 800-802 repair it, encode_write_frame is called and
\* line 733 / 736 / 784 / 807 unreferences it
Filtered(r, lib_set, ref_ok) ==
  LET r1 == IF lib_set THEN Ref(r, "filt_frame.hw_frames_ctx") ELSE r
      r2 == IF ~IsSet(r1, "filt_frame.hw_frames_ctx")
               /\ IsSet(r1, "encoder_ctx_global.hw_frames_ctx") /\ ref_ok
              THEN Ref(r1, "filt_frame.hw_frames_ctx")
              ELSE r1
  IN Unref(r2, "filt_frame.hw_frames_ctx")

PtsValues == Timestamps \cup {NOPTS}

\* av_buffer_ref of lines 665, 720, 760, 779 and 801 is called only for a frame
\* the library delivered without hw_frames_ctx
RefAnswers(lib_set) == IF lib_set THEN {TRUE} ELSE BOOLEAN

\* line 676 reads pkt_dts only when the frame has no PTS
DtsValues(pts) == IF pts = NOPTS THEN PtsValues ELSE {NOPTS}

\* lines 654-700: avcodec_receive_frame up to av_buffersrc_add_frame_flags
PL_ReceiveFrame ==
  /\ pl_pc = "receive"
  /\ \/ /\ ret' \in {"EAGAIN", "EOF"}
        /\ pl_pc' = "read"
        /\ res' = Unref(res, "frame.hw_frames_ctx")
        /\ UNCHANGED <<n_decoded, pending, frame_pts, last_input_pts, hist, job>>
     \/ /\ ret' = "ERR"
        /\ pl_pc' = "flush_dec"
        /\ res' = Unref(res, "frame.hw_frames_ctx")
        /\ job' = [job EXCEPT !.fatal = TRUE]
        /\ UNCHANGED <<n_decoded, pending, frame_pts, last_input_pts, hist>>
     \/ /\ n_decoded < MaxFrames
        /\ ret' = "0"
        /\ n_decoded' = n_decoded + 1
        /\ \E pts \in PtsValues : \E pkt_dts \in DtsValues(pts) :
           \E lib_set, fed \in BOOLEAN : \E ref_ok \in RefAnswers(lib_set) :
             LET r1 == RepairFrame(Decoded(res, lib_set), ref_ok)
                 t == LoopPts(pts, pkt_dts, last_input_pts)
             IN /\ frame_pts' = t.pts
                /\ last_input_pts' = t.last
                /\ hist' = Append(hist, [orig |-> pts, out |-> t.pts, last |-> t.last,
                                         stage |-> "loop", fed |-> fed])
                /\ job' = [job EXCEPT !.late = @ \/ job.fatal, !.fatal = @ \/ ~fed]
                /\ IF fed
                     THEN /\ res' = r1
                          /\ pending' = pending + 1
                          /\ pl_pc' = "sink"
                     ELSE /\ res' = Unref(r1, "frame.hw_frames_ctx")
                          /\ pl_pc' = "read"
                          /\ UNCHANGED pending
  /\ UNCHANGED <<plSetup, exit_status>>
  /\ UNCHANGED notPlVars

\* lines 703-741: the filtered frames of one decoded frame
PL_SinkFrame ==
  /\ pl_pc = "sink"
  /\ \/ /\ ret' \in {"EAGAIN", "EOF"}
        /\ res' = Unref(res, "frame.hw_frames_ctx")
        /\ pl_pc' = "receive"
        /\ UNCHANGED <<pending, job>>
     \/ /\ ret' = "ERR"
        /\ pl_pc' = "flush_dec"
        /\ job' = [job EXCEPT !.fatal = TRUE]
        /\ UNCHANGED <<res, pending>>
     \/ /\ pending > 0
        /\ ret' = "0"
        /\ pending' = pending - 1
        /\ \E lib_set, enc_ok \in BOOLEAN : \E ref_ok \in RefAnswers(lib_set) :
             /\ res' = Filtered(res, lib_set, ref_ok)
             /\ pl_pc' = (IF enc_ok THEN "sink" ELSE "flush_dec")
             /\ job' = [job EXCEPT !.fatal = @ \/ ~enc_ok]
  /\ UNCHANGED <<plSetup, n_decoded, frame_pts, last_input_pts, hist,
                 exit_status>>
  /\ UNCHANGED notPlVars

\* lines 745-754: end_processing_loop, the flush packet
PL_FlushDecoder ==
  /\ pl_pc = "flush_dec"
  /\ \/ ret' = "0" /\ pl_pc' = "flush_receive"
     \/ ret' = "ERR" /\ pl_pc' = "flush_filter"
  /\ UNCHANGED <<res, plSetup, plLoop, exit_status>>
  /\ UNCHANGED notPlVars

\* lines 754-772: reached with ret >= 0 only
PL_FlushReceive ==
  /\ pl_pc = "flush_receive"
  /\ \/ /\ ret' \in {"EAGAIN", "EOF", "ERR"}
        /\ pl_pc' = "flush_filter"
        /\ res' = Unref(res, "frame.hw_frames_ctx")
        /\ job' = [job EXCEPT !.dec_eof = (ret' = "EOF")]
        /\ UNCHANGED <<n_decoded, pending, frame_pts, last_input_pts, hist>>
     \/ /\ n_decoded < MaxFrames
        /\ ret' = "0"
        /\ n_decoded' = n_decoded + 1
        /\ \E pts \in PtsValues : \E lib_set, fed \in BOOLEAN :
             \E ref_ok \in RefAnswers(lib_set) :
             LET r1 == RepairFrame(Decoded(res, lib_set), ref_ok)
                 t == FlushPts(pts, last_input_pts)
             IN /\ frame_pts' = t.pts
                /\ last_input_pts' = t.last
                /\ hist' = Append(hist, [orig |-> pts, out |-> t.pts, last |-> t.last,
                                         stage |-> "flush", fed |-> fed])
                /\ job' = [job EXCEPT !.late = @ \/ job.fatal]
                /\ IF fed
                     THEN /\ res' = r1
                          /\ pending' = pending + 1
                          /\ pl_pc' = "flush_sink"
                     ELSE /\ res' = Unref(r1, "frame.hw_frames_ctx")
                          /\ pl_pc' = "flush_filter"
                          /\ UNCHANGED pending
  /\ UNCHANGED <<plSetup, exit_status>>
  /\ UNCHANGED notPlVars

\* lines 773-787: the sink loop ends with ret < 0, so the while (ret >= 0) of
\* line 754 ends with it
PL_FlushSink ==
  /\ pl_pc = "flush_sink"
  /\ \/ /\ ret' \in {"EAGAIN", "EOF", "ERR"}
        /\ res' = Unref(res, "frame.hw_frames_ctx")
        /\ pl_pc' = "flush_filter"
        /\ UNCHANGED pending
     \/ /\ pending > 0
        /\ ret' = "0"
        /\ pending' = pending - 1
        /\ \E lib_set \in BOOLEAN : \E ref_ok \in RefAnswers(lib_set) :
             res' = Filtered(res, lib_set, ref_ok)
        /\ UNCHANGED pl_pc
  /\ UNCHANGED <<plSetup, n_decoded, frame_pts, last_input_pts, hist,
                 exit_status, job>>
  /\ UNCHANGED notPlVars

\* lines 789-794: end_flush_filter, the flush signal to the buffer source
PL_FlushFilter ==
  /\ pl_pc = "flush_filter"
  /\ pl_pc' = "flush_filter_sink"
  /\ UNCHANGED <<res, ret, plSetup, plLoop, exit_status>>
  /\ UNCHANGED notPlVars

\* lines 795-808
PL_FlushFilterSink ==
  /\ pl_pc = "flush_filter_sink"
  /\ \/ /\ ret' \in {"EAGAIN", "EOF", "ERR"}
        /\ pl_pc' = "flush_enc"
        /\ job' = [job EXCEPT !.filt_eof = (ret' = "EOF")]
        /\ UNCHANGED <<res, pending>>
     \/ /\ pending > 0
        /\ ret' = "0"
        /\ pending' = pending - 1
        /\ \E lib_set \in BOOLEAN : \E ref_ok \in RefAnswers(lib_set) :
             res' = Filtered(res, lib_set, ref_ok)
        /\ UNCHANGED <<pl_pc, job>>
  /\ UNCHANGED <<plSetup, n_decoded, frame_pts, last_input_pts, hist,
                 exit_status>>
  /\ UNCHANGED notPlVars

\* lines 810-816: the encoder is flushed, the trailer written
PL_FlushEncoder ==
  /\ pl_pc = "flush_enc"
  /\ pl_pc' = "cleanup"
  /\ job' = [job EXCEPT !.trailer = TRUE]
  /\ UNCHANGED <<res, ret, plSetup, n_decoded, pending, frame_pts, last_input_pts, hist, exit_status>>
  /\ UNCHANGED notPlVars

\* A slip in line 845: the extra reference is forgotten.
CleanupExtraRef_forgotten(r) == r

\* line 845
CleanupExtraRef(r) == Unref(r, "decoder_hw_frames_ctx_ref")

\* A slip in lines 855-860: the output context is freed with pb left open.
CleanupOutput_pb_left_open(r, nf) == FreeByValue(r, "output_format_ctx_global")

\* lines 855-860
CleanupOutput(r, nf) ==
  IF IsSet(r, "output_format_ctx_global")
    THEN FreeByValue(IF ~nf /\ IsSet(r, "output_format_ctx_global.pb")
                       THEN Unref(r, "output_format_ctx_global.pb")
                       ELSE r,
                     "output_format_ctx_global")
    ELSE r

\* A slip in lines 826-862: the device reference is released before the
\* codec contexts.
CleanupSequence_device_first ==
  << "frame.hw_frames_ctx", "filt_frame.hw_frames_ctx", "filter_graph_global",
     "hw_device_ctx_ref_global",
     "decoder_ctx.hw_frames_ctx", "decoder_ctx.hw_device_ctx", "decoder_ctx",
     "decoder_hw_frames_ctx_ref", "encoder_ctx_global.hw_frames_ctx", "encoder_ctx_global",
     "input_format_ctx", "output_format_ctx_global.pb", "output_format_ctx_global" >>

\* lines 826-862: what the cleanup releases, in the order of the code
CleanupSequence ==
  << "frame.hw_frames_ctx",                \* line 828
     "filt_frame.hw_frames_ctx",           \* line 829
     "filter_graph_global",                \* line 834
     "decoder_ctx.hw_frames_ctx",          \* line 840
     "decoder_ctx.hw_device_ctx",          \* line 842
     "decoder_ctx",                        \* line 843
     "decoder_hw_frames_ctx_ref",          \* line 845
     "encoder_ctx_global.hw_frames_ctx",   \* line 848
     "encoder_ctx_global",                 \* line 850
     "input_format_ctx",                   \* line 853
     "output_format_ctx_global.pb",        \* line 857
     "output_format_ctx_global",           \* line 859
     "hw_device_ctx_ref_global" >>         \* line 862

\* the pointers the cleanup finds set and releases, in order
ReleaseOrder(r, nf) ==
  SelectSeq(CleanupSequence,
            LAMBDA p : IsSet(r, p) /\ (p = "output_format_ctx_global.pb" => ~nf))

\* lines 826-867, in the order of the code
Cleanup(r, nf) ==
  LET r0 == Unref(Unref(r, "frame.hw_frames_ctx"), "filt_frame.hw_frames_ctx")
      r1 == Unref(r0, "filter_graph_global")
      r2 == IF IsSet(r1, "decoder_ctx")
              THEN FreeContext(Unref(Unref(r1, "decoder_ctx.hw_frames_ctx"),
                                     "decoder_ctx.hw_device_ctx"),
                               "decoder_ctx",
                               {"decoder_ctx.hw_frames_ctx", "decoder_ctx.hw_device_ctx"})
              ELSE r1
      r3 == CleanupExtraRef(r2)
      r4 == IF IsSet(r3, "encoder_ctx_global")
              THEN FreeContext(Unref(r3, "encoder_ctx_global.hw_frames_ctx"),
                               "encoder_ctx_global",
                               {"encoder_ctx_global.hw_frames_ctx"})
              ELSE r3
      r5 == Unref(r4, "input_format_ctx")
      r6 == CleanupOutput(r5, nf)
  IN Unref(r6, "hw_device_ctx_ref_global")

\* lines 826-867
PL_Cleanup ==
  /\ pl_pc = "cleanup"
  /\ res' = Cleanup(res, nofile)
  /\ job' = [job EXCEPT !.released = ReleaseOrder(res, nofile)]
  /\ exit_status' = IF ret = "0" THEN "EXIT_SUCCESS" ELSE "EXIT_FAILURE"
  /\ pl_pc' = "returned"
  /\ UNCHANGED <<ret, plSetup, n_decoded, pending, frame_pts, last_input_pts, hist>>
  /\ UNCHANGED notPlVars

PNext ==
  \/ PL_Args
  \/ PL_OpenInput
  \/ PL_FindDecoder
  \/ PL_AllocDecoder
  \/ PL_HwDevice
  \/ PL_OpenDecoder
  \/ PL_ManualPool
  \/ PL_AttachPool
  \/ PL_ExtraRef
  \/ PL_OutputCtx
  \/ PL_AllocEncoder
  \/ PL_TempCtx
  \/ PL_InitFilters
  \/ PL_EncoderPool
  \/ PL_OpenEncoder
  \/ PL_OpenOutput
  \/ PL_AllocFrames
  \/ PL_ReadPacket
  \/ PL_ReceiveFrame
  \/ PL_SinkFrame
  \/ PL_FlushDecoder
  \/ PL_FlushReceive
  \/ PL_FlushSink
  \/ PL_FlushFilter
  \/ PL_FlushFilterSink
  \/ PL_FlushEncoder
  \/ PL_Cleanup

SpecPipeline == PInit /\ [][PNext]_vars

(***************************************************************************)
(* is_good_crop, lines 289-294, called on its own with every rectangle and *)
(* every pair of original dimensions of a bounded range, and called again  *)
(* as one dimension of the rectangle shrinks.                              *)
(***************************************************************************)
GcDims == (0 - 1)..(MaxDim + 1)
GcOriginals == 1..MaxDim

GInit ==
  /\ H1Idle
  /\ BatchIdle
  /\ PlIdle
  /\ FpIdle /\ DtIdle /\ ExIdle /\ EwIdle
  /\ \E w, h \in GcDims : \E valid \in BOOLEAN :
       gc_rect = CropRect(0, 0, w, h, valid)
  /\ gc_ow \in GcOriginals
  /\ gc_oh \in GcOriginals
  /\ gc_eval = NotEvaluated

\* is_good_crop(rect, ow, oh)
GC_Call ==
  /\ ~gc_eval.called
  /\ gc_eval' = EvalGoodCrop(gc_rect, gc_ow, gc_oh)
  /\ UNCHANGED <<gc_rect, gc_ow, gc_oh>>
  /\ UNCHANGED notGcVars

\* is_good_crop called again with the width one pixel smaller
GC_ShrinkW ==
  /\ gc_eval.reached
  /\ gc_rect.w > 1
  /\ gc_rect' = [gc_rect EXCEPT !.w = @ - 1]
  /\ gc_eval' = EvalGoodCrop([gc_rect EXCEPT !.w = @ - 1], gc_ow, gc_oh)
  /\ UNCHANGED <<gc_ow, gc_oh>>
  /\ UNCHANGED notGcVars

\* is_good_crop called again with the height one pixel smaller
GC_ShrinkH ==
  /\ gc_eval.reached
  /\ gc_rect.h > 1
  /\ gc_rect' = [gc_rect EXCEPT !.h = @ - 1]
  /\ gc_eval' = EvalGoodCrop([gc_rect EXCEPT !.h = @ - 1], gc_ow, gc_oh)
  /\ UNCHANGED <<gc_ow, gc_oh>>
  /\ UNCHANGED notGcVars

GNext ==
  \/ GC_Call
  \/ GC_ShrinkW
  \/ GC_ShrinkH

SpecGoodCrop == GInit /\ [][GNext]_vars

(***************************************************************************)
(* SpecProbe: one caller asks ffprobe_val for a value and acts on it.      *)
(***************************************************************************)
\* what ffprobe may write for "-show_entries stream=KEY -of csv=p=0"
ProbeOutputs ==
  { <<>>, <<"\n">>, <<" ", "\r", "\n">>,
    <<"N", "/", "A", "\n">>,
    <<"0", ".", "0", "0", "\n">>,
    <<"1", "2", ".", "5", "\n">>,
    <<"2", "4", "\n">>,
    <<"\t", "2", "0", " ">>,
    <<"h", "2", "6", "4", "\n">>,
    <<"H", "E", "V", "C", "\n">>,
    <<"v", "p", "8", "\n">> }

FpInit ==
  /\ H1Idle /\ BatchIdle /\ PlIdle /\ GcIdle /\ DtIdle /\ ExIdle /\ EwIdle
  /\ fp_pc = "call"
  /\ fp_key \in {"duration", "dims", "codec_name"}
  /\ fp_popen \in BOOLEAN
  /\ fp_exit \in {"zero", "nonzero"}
  /\ fp_out \in ProbeOutputs
  /\ fp_out2 \in IF fp_key = "dims" THEN ProbeOutputs ELSE {<<>>}
  /\ fp_val = <<>> /\ fp_val2 = <<>> /\ fp_use = "none"

\* lines 130, 301 and 359: the caller's first (or only) query
FP_Call ==
  /\ fp_pc = "call"
  /\ fp_val' = ffprobe_val(fp_popen, fp_exit, fp_out)
  /\ IF ffprobe_val(fp_popen, fp_exit, fp_out) = Threw
       THEN fp_pc' = "done" /\ fp_use' = "threw"
       ELSE fp_pc' = (IF fp_key = "dims" THEN "call2" ELSE "use") /\ UNCHANGED fp_use
  /\ UNCHANGED <<fp_key, fp_popen, fp_exit, fp_out, fp_out2, fp_val2>>
  /\ UNCHANGED notFpVars

\* line 360: the height query of handle_video_phase1
FP_Call2 ==
  /\ fp_pc = "call2"
  /\ \E popen_ok \in BOOLEAN :
       /\ fp_val2' = ffprobe_val(popen_ok, fp_exit, fp_out2)
       /\ IF ~popen_ok
            THEN fp_pc' = "done" /\ fp_use' = "threw"
            ELSE fp_pc' = "use" /\ UNCHANGED fp_use
  /\ UNCHANGED <<fp_key, fp_popen, fp_exit, fp_out, fp_out2, fp_val>>
  /\ UNCHANGED notFpVars

\* lines 131-140, 302-305 and 361-373: what the caller does with the value
FP_Use ==
  /\ fp_pc = "use"
  /\ fp_use' = CASE fp_key = "duration" -> DurationUse(fp_val)
                 [] fp_key = "dims" -> DimsUse(fp_val, fp_val2)
                 [] fp_key = "codec_name" -> CodecUse(fp_val)
  /\ fp_pc' = "done"
  /\ UNCHANGED <<fp_key, fp_popen, fp_exit, fp_out, fp_out2, fp_val, fp_val2>>
  /\ UNCHANGED notFpVars

FpNext ==
  \/ FP_Call
  \/ FP_Call2
  \/ FP_Use

SpecProbe == FpInit /\ [][FpNext]_vars

(***************************************************************************)
(* SpecDetectors: each of the three detectors, from what it observes to    *)
(* the rectangle it returns.                                               *)
(***************************************************************************)
\* The last crop=W:H:X:Y match of a probe: the regular expression of line
\* 153 admits any digit strings, 0 included.
DtProbeMatches ==
  {CropRect(x, y, w, h, TRUE) : x \in {0, MaxProbeX}, y \in {0, MaxProbeY}, w \in {0, 2, 10}, h \in {0, 12}}

\* what ffprobe may write when detect_crop_ffmpeg asks for the duration:
\* nothing or white space only (absent), text that is no number
\* (unparseable), a zero, a positive number
AbsentDurations == { <<>>, <<" ", "\r", "\n">> }
UnparseableDurations == { <<"N", "/", "A", "\n">> }
ZeroDurations == { <<"0", ".", "0", "0", "\n">> }
UsableDurations == { <<"1", "2", ".", "5", "\n">> }
DtDurations == AbsentDurations \cup UnparseableDurations \cup ZeroDurations \cup UsableDurations

\* the images handed to detect_image_crop_cv
DtImages ==
  {Image(0, 0, {}, {})} \cup
  {Image(MaxImg, MaxImg, c, r) : c \in SUBSET (0..(MaxImg - 1)), r \in SUBSET (0..(MaxImg - 1))}

\* sequences over S of length lo..hi
SeqsOf(S, lo, hi) == UNION {[1..n -> S] : n \in lo..hi}

\* line 36
TOLERANCE == 5

\* std::abs
Abs(x) == IF x < 0 THEN 0 - x ELSE x

\* A pixel (cv::Vec3b) is a triple of channel values; a line is the sequence
\* of the pixels of one row or column.  The values a channel takes here:
Levels == {0, 12, 40}
Pixels == {<<c0, c1, c2>> : c0 \in Levels, c1 \in Levels, c2 \in Levels}

\* the lines handed to is_blank_line, the empty one included
DtLines == SeqsOf(Pixels, 0, MaxLine)

\* the sum of channel c over the first i pixels of a line
RECURSIVE ChannelSum(_, _, _)
ChannelSum(line, c, i) ==
  IF i = 0 THEN 0 ELSE line[i][c] + ChannelSum(line, c, i - 1)

\* line 442 with the casts of lines 445-447: cv::mean is the arithmetic mean
\* of each channel, and static_cast<int> drops its fraction
TruncatedMean(line, c) == ChannelSum(line, c, Len(line)) \div Len(line)

\* lines 445-447: the deviations of the three channels, added up
diff_sum(p, line) ==
  Abs(p[1] - TruncatedMean(line, 1)) + Abs(p[2] - TruncatedMean(line, 2))
    + Abs(p[3] - TruncatedMean(line, 3))

\* lines 421-453: the lambda is_blank_line of detect_image_crop_cv
is_blank_line(line, tol) ==
  IF line = <<>> THEN TRUE
  ELSE \A i \in 1..Len(line) : ~(diff_sum(line[i], line) > tol * 3)

DtInit ==
  /\ H1Idle /\ BatchIdle /\ PlIdle /\ GcIdle /\ FpIdle /\ ExIdle /\ EwIdle
  /\ dt_pc = "call"
  /\ dt_in \in {[kind |-> "ffmpeg", obs |-> rs, duration |-> d] :
                   rs \in SeqsOf(DtProbeMatches, 0, FFMPEG_PROBES), d \in DtDurations}
          \cup {[kind |-> "gradient", obs |-> cs] : cs \in SeqsOf(ContourRects(SmallSrc), 0, 2)}
          \cup {[kind |-> "image", obs |-> <<img>>] : img \in DtImages}
          \cup {[kind |-> "line", obs |-> line] : line \in DtLines}
  /\ dt_out = InvalidRect

\* detect_crop_ffmpeg, lines 130-140: the duration query; without a usable
\* duration the function returns before the probe loop of line 143
DT_Duration ==
  /\ dt_pc = "call" /\ dt_in.kind = "ffmpeg"
  /\ LET duration_str == ffprobe_val(TRUE, "zero", dt_in.duration)
     IN IF DurationUse(duration_str) = "invalid_rect"
          THEN dt_pc' = "done" /\ dt_out' = InvalidRect
          ELSE dt_pc' = "probes" /\ UNCHANGED dt_out
  /\ UNCHANGED dt_in
  /\ UNCHANGED notDtVars

\* detect_crop_ffmpeg, lines 143-201, for the matches its probes collected
DT_Ffmpeg ==
  /\ dt_pc = "probes" /\ dt_in.kind = "ffmpeg"
  /\ dt_out' = AggregateProbes(dt_in.obs)
  /\ dt_pc' = "done"
  /\ UNCHANGED dt_in
  /\ UNCHANGED notDtVars

\* detect_gradient, lines 265-285, for the contours of the mask
DT_Gradient ==
  /\ dt_pc = "call" /\ dt_in.kind = "gradient"
  /\ dt_out' = detect_gradient(dt_in.obs)
  /\ dt_pc' = "done"
  /\ UNCHANGED dt_in
  /\ UNCHANGED notDtVars

\* detect_image_crop_cv, lines 416-464
DT_Image ==
  /\ dt_pc = "call" /\ dt_in.kind = "image"
  /\ dt_out' = detect_image_crop_cv(dt_in.obs[1])
  /\ dt_pc' = "done"
  /\ UNCHANGED dt_in
  /\ UNCHANGED notDtVars

\* lines 457-460: is_blank_line for one column or row, with the default
\* tolerance of line 416; the verdict is where the caller goes on
DT_Line ==
  /\ dt_pc = "call" /\ dt_in.kind = "line"
  /\ dt_pc' = IF is_blank_line(dt_in.obs, TOLERANCE) THEN "blank" ELSE "nonblank"
  /\ UNCHANGED <<dt_in, dt_out>>
  /\ UNCHANGED notDtVars

DtNext ==
  \/ DT_Duration
  \/ DT_Ffmpeg
  \/ DT_Gradient
  \/ DT_Image
  \/ DT_Line

SpecDetectors == DtInit /\ [][DtNext]_vars

(***************************************************************************)
(* SpecExtract: extract_frames_for_video, lines 505-622, for one cropped   *)
(* video.  What ffmpeg writes into the scene-cut directory is chosen when  *)
(* ffmpeg_scene_jpgs runs; the video is seen when the fallback opens it:   *)
(* its frame count (0 when the container does not tell) and, for each      *)
(* multiple j * step of the sampling step, what reading that frame gives:  *)
(* a frame with content ("ok"), a frame of one colour once cropped         *)
(* ("blank"), or no frame ("unreadable").                                  *)
(***************************************************************************)
\* stems of the files ffmpeg names after the presentation time ("%d.png")
SceneStems ==
  << <<"0">>, <<"2", "5">>, <<"5", "0">>, <<"7", "5">>, <<"1", "0", "0">>,
     <<"1", "2", "5">>, <<"1", "5", "0">>, <<"1", "7", "5">> >>

\* what the scene-cut directory may hold before ffmpeg runs (line 468 allows
\* for a directory that is already there)
Leftovers ==
  { NoDirectory,
    [exists |-> TRUE, files |-> {}],
    [exists |-> TRUE, files |-> {[stem |-> <<"c", "o", "v", "e", "r">>, content |-> "ok"]}],
    [exists |-> TRUE,
     files |-> {[stem |-> <<"9", "9", "9", "9", "9", "9", "9", "9", "9", "9", "9">>,
                 content |-> "ok"]}] }

\* lines 498-500: std::sort by std::stoi of the stem
RECURSIVE SortByFrameNumber(_)
SortByFrameNumber(S) ==
  IF S = {} THEN <<>>
  ELSE LET f == CHOOSE g \in S : \A h \in S : stoi(g.stem).value <= stoi(h.stem).value
       IN <<f>> \o SortByFrameNumber(S \ {f})

\* lines 486-496: the files of the directory whose stem std::stoi accepts, or
\* the exception that leaves the loop
ListScenePngs(files) ==
  IF \E f \in files : stoi(f.stem).what = "std::out_of_range"
    THEN [threw |-> TRUE, jpgs |-> <<>>]
    ELSE [threw |-> FALSE, jpgs |-> SortByFrameNumber({f \in files : stoi(f.stem).ok})]

\* ffmpeg_scene_jpgs, lines 467-502, called at line 517
EX_SceneCuts ==
  /\ ex_pc = "cuts"
  /\ \E system_ret \in {0, 1} : \E n \in 0..MaxScene : \E content \in [1..n -> {"ok", "blank", "empty"}] :
       LET written == {[stem |-> SceneStems[j], content |-> content[j]] : j \in 1..n}
           files == scene_tmp.files \cup written
       IN /\ scene_tmp' = [exists |-> TRUE, files |-> files]
          /\ IF system_ret # 0
               THEN /\ scene_pngs' = <<>>
                    /\ ex_pc' = "scene"
                    /\ UNCHANGED ex_exit
               ELSE IF ListScenePngs(files).threw
                 THEN /\ scene_pngs' = <<>>
                      /\ ex_pc' = "done"
                      /\ ex_exit' = "exception"
                 ELSE /\ scene_pngs' = ListScenePngs(files).jpgs
                      /\ ex_pc' = "scene"
                      /\ UNCHANGED ex_exit
  /\ UNCHANGED <<video, scene_kept, final_frame_idx, total_frames, step,
                 current_fallback_count, fb_i, fb_written, fb_end, out_dir>>
  /\ UNCHANGED notExVars

\* line 584: std::max(1L, total_frames / (MIN_FRAMES + 1))
StepOf(total) == Max2(1, total \div (MIN_FRAMES + 1))

SampleIndexes == 0..MIN_FRAMES

ExInit ==
  /\ H1Idle /\ BatchIdle /\ PlIdle /\ GcIdle /\ FpIdle /\ DtIdle /\ EwIdle
  /\ ex_pc = "cuts"
  /\ video = <<>>
  /\ scene_kept = 0 /\ final_frame_idx = 1
  /\ total_frames = 0 /\ step = 0 /\ current_fallback_count = 0 /\ fb_i = 0
  /\ fb_written = <<>> /\ fb_end = "none"
  /\ scene_tmp \in Leftovers
  /\ scene_pngs = <<>> /\ ex_exit = "none"
  /\ out_dir = <<>>

\* lines 525-567: the loop over scene_pngs from element j on, with
\* final_frame_idx = idx: an unreadable or blank image is removed and
\* skipped, any other is written as <idx>_<frame_no / fps>.png and idx goes up
RECURSIVE SceneLoop(_, _, _)
SceneLoop(pngs, j, idx) ==
  IF j > Len(pngs) THEN <<>>
  ELSE IF pngs[j].content # "ok" THEN SceneLoop(pngs, j + 1, idx)
  ELSE <<[idx |-> idx, frame_no |-> stoi(pngs[j].stem).value, pass |-> "scene"]>>
         \o SceneLoop(pngs, j + 1, idx + 1)

\* A slip in line 587: the fallback numbers its frames from 1.
FallbackStart_from_one(idx) == 1

\* line 587: int current_fallback_count = final_frame_idx
FallbackStart(idx) == idx

\* lines 524-572: the scene pass writes frame 1, 2, ... for every scene cut
\* that is readable and not blank, removes each scene-cut file as it goes and
\* then the directory; scene_pngs is not read again
EX_ScenePass ==
  /\ ex_pc = "scene"
  /\ LET kept == Cardinality({j \in 1..Len(scene_pngs) : scene_pngs[j].content = "ok"})
     IN /\ scene_kept' = kept
        /\ final_frame_idx' = 1 + kept
  /\ scene_tmp' = IF scene_tmp.exists THEN NoDirectory ELSE scene_tmp
  /\ scene_pngs' = <<>>
  /\ out_dir' = SceneLoop(scene_pngs, 1, final_frame_idx)
  /\ ex_pc' = "check"
  /\ UNCHANGED <<video, total_frames, step, current_fallback_count, fb_i, fb_written,
                 fb_end, ex_exit>>
  /\ UNCHANGED notExVars

\* line 576
FallbackNeeded(idx) == idx <= MIN_FRAMES

\* lines 576-589: the fallback is entered or not; inside, the video is opened
\* or line 581 returns
EX_FallbackCheck ==
  /\ ex_pc = "check"
  /\ IF FallbackNeeded(final_frame_idx)
       THEN \/ /\ fb_end' = "not_opened"
               /\ ex_pc' = "done"
               /\ ex_exit' = "early_return"
               /\ UNCHANGED <<video, total_frames, step, current_fallback_count, fb_i>>
            \/ /\ \E count \in 0..MaxTotal :
                    \E at \in [SampleIndexes -> {"ok", "blank", "unreadable"}] :
                      video' = [frame_count |-> count, at |-> at]
               /\ total_frames' = video'.frame_count
               /\ step' = StepOf(video'.frame_count)
               /\ current_fallback_count' = FallbackStart(final_frame_idx)
               /\ fb_i' = 0
               /\ fb_end' = "entered"
               /\ ex_pc' = "loop"
               /\ UNCHANGED ex_exit
       ELSE /\ ex_pc' = "done"
            /\ ex_exit' = "return"
            /\ UNCHANGED <<video, total_frames, step, current_fallback_count, fb_i, fb_end>>
  /\ UNCHANGED <<scene_kept, final_frame_idx, fb_written, scene_tmp, scene_pngs, out_dir>>
  /\ UNCHANGED notExVars

\* A slip in line 589: <= MIN_FRAMES + 1.
LoopContinues_one_more(count, i) == count <= MIN_FRAMES + 1 /\ i < MIN_FRAMES * 2

\* the condition of the for loop of line 589
LoopContinues(count, i) == count <= MIN_FRAMES /\ i < MIN_FRAMES * 2

\* cap.set / cap.read of lines 593-595 at frame pos
FrameAt(pos) ==
  IF pos % step = 0 /\ (pos \div step) \in SampleIndexes
    THEN video.at[pos \div step]
    ELSE "unreadable"

\* lines 618-619: the loop is left
LeaveFallback(how) ==
  /\ final_frame_idx' = current_fallback_count
  /\ fb_end' = how
  /\ ex_pc' = "done"
  /\ ex_exit' = "return"
  /\ UNCHANGED <<current_fallback_count, fb_i, fb_written, out_dir>>

\* lines 589-617: one evaluation of the loop condition and, if it holds, one
\* iteration of the body
EX_Iterate ==
  /\ ex_pc = "loop"
  /\ IF ~LoopContinues(current_fallback_count, fb_i)
       THEN LeaveFallback("condition")
       ELSE LET pos == (current_fallback_count - 1) * step
            IN IF pos >= total_frames /\ total_frames > 0
                 THEN LeaveFallback("past_end")
                 ELSE CASE FrameAt(pos) = "unreadable" -> LeaveFallback("read_failed")
                        [] FrameAt(pos) = "blank" ->
                             /\ fb_i' = fb_i + 1
                             /\ UNCHANGED <<ex_pc, final_frame_idx, current_fallback_count,
                                            fb_written, fb_end, ex_exit, out_dir>>
                        [] FrameAt(pos) = "ok" ->
                             /\ fb_written' = Append(fb_written, pos)
                             /\ out_dir' = Append(out_dir,
                                                  [idx |-> current_fallback_count,
                                                   frame_no |-> pos, pass |-> "fallback"])
                             /\ current_fallback_count' = current_fallback_count + 1
                             /\ fb_i' = fb_i + 1
                             /\ UNCHANGED <<ex_pc, final_frame_idx, fb_end, ex_exit>>
  /\ UNCHANGED <<video, scene_kept, total_frames, step, scene_tmp, scene_pngs>>
  /\ UNCHANGED notExVars

ExNext ==
  \/ EX_SceneCuts
  \/ EX_ScenePass
  \/ EX_FallbackCheck
  \/ EX_Iterate

SpecExtract == ExInit /\ [][ExNext]_vars

\* extract_frames_for_video runs on one thread that is not stopped
SpecExtractFair == SpecExtract /\ WF_vars(ExNext)

(***************************************************************************)
(* SpecEncode: one call of encode_write_frame, crop/main.cpp lines         *)
(* 221-274, with every frame / flush argument and every answer of          *)
(* av_packet_alloc, avcodec_send_frame, avcodec_receive_packet and          *)
(* av_interleaved_write_frame.  ret is "0" or the name of a negative        *)
(* AVERROR; ew_st.last is the last libav call made and what it answered.   *)
(***************************************************************************)
\* the negative results a libav call can give
AvErrors == {"EAGAIN", "EOF", "ERR"}

EwInit ==
  /\ H1Idle /\ BatchIdle /\ PlIdle /\ GcIdle /\ FpIdle /\ DtIdle /\ ExIdle
  /\ ew_pc = "call"
  /\ ew_arg \in [filt_frame : {"frame", "nullptr"}, flush : BOOLEAN]
  /\ ew_st = NoEncodeCall

\* the places of main that hand a filtered frame to encode_write_frame: the
\* sink loop of the main loop (line 731), of the decoder flush (line 783) and
\* of the filter-graph flush (line 806)
FrameSites == {"loop", "flush_dec", "flush_filter"}

\* frame->pts at those places: what lines 676-686 or 763-766 left in the
\* decoded frame
FramePts ==
  {LoopPts(p, d, l).pts : p \in PtsValues, d \in PtsValues, l \in PtsValues}
    \cup {FlushPts(p, l).pts : p \in PtsValues, l \in PtsValues}

\* lines 727-729 and 781: a filtered frame without a timestamp takes the one
\* of the decoded frame it came from; lines 796-808 have no such step
HandedPts(site, filt_pts, orig_pts) ==
  IF site \in {"loop", "flush_dec"} /\ filt_pts = NOPTS THEN orig_pts ELSE filt_pts

\* lines 726-731, 781-783, 804-806 and 812: main reaches a call of
\* encode_write_frame, with a filtered frame or with nullptr
EW_Call ==
  /\ ew_pc = "call"
  /\ ew_pc' = "send"
  /\ IF ew_arg.filt_frame = "nullptr"
       THEN ew_st' = [ew_st EXCEPT !.call.site = "flush_enc"]
       ELSE \E site \in FrameSites, filt_pts \in PtsValues, orig_pts \in FramePts :
              ew_st' = [ew_st EXCEPT !.call =
                          [site |-> site, filt_pts |-> filt_pts, orig_pts |-> orig_pts,
                           pts |-> HandedPts(site, filt_pts, orig_pts)]]
  /\ UNCHANGED ew_arg
  /\ UNCHANGED notEwVars

\* lines 232-233 and 238: the results of avcodec_send_frame that are let pass
SendTolerated(r, flush) == (r = "EOF" /\ flush) \/ (r = "EAGAIN" /\ ~flush)

\* A slip in lines 272-273: the value of ret is returned as it is.
ReturnValue_raw(r, flush) == r

\* lines 272-273
ReturnValue(r, flush) ==
  IF (r = "EAGAIN" /\ ~flush) \/ (r = "EOF" /\ flush) THEN "0"
  ELSE IF r # "0" THEN r ELSE "0"

\* end_encode, lines 268-273, with ret = r after the libav call op
EndEncode(op, r) ==
  /\ ew_st' = [ew_st EXCEPT !.ret = r, !.last = <<op, r>>,
                            !.result = ReturnValue(r, ew_arg.flush)]
  /\ ew_pc' = "returned"

\* lines 222-241: the packet is allocated and the frame sent
EW_Send ==
  /\ ew_pc = "send"
  /\ \/ /\ ew_st' = [ew_st EXCEPT !.last = <<"alloc", "ENOMEM">>, !.result = "ENOMEM"]
        /\ ew_pc' = "returned"
     \/ \E r \in {"0"} \cup AvErrors :
          IF r # "0" /\ ~SendTolerated(r, ew_arg.flush)
            THEN EndEncode("send", r)
            ELSE /\ ew_st' = [ew_st EXCEPT !.ret = r, !.last = <<"send", r>>,
                                           !.accepted = (r = "0")]
                 /\ ew_pc' = "receive"
  /\ UNCHANGED ew_arg
  /\ UNCHANGED notEwVars

\* lines 244-266: one turn of the receive loop
EW_Receive ==
  /\ ew_pc = "receive"
  /\ \/ \E r \in AvErrors : EndEncode("receive", r)
     \/ /\ Len(ew_st.emitted) < MaxPackets
        /\ LET pkt == Len(ew_st.emitted) + 1
           IN \/ /\ ew_st' = [ew_st EXCEPT !.ret = "0", !.last = <<"write", "0">>,
                                           !.emitted = Append(@, pkt),
                                           !.written = Append(@, pkt)]
                 /\ UNCHANGED ew_pc
              \/ \E r \in AvErrors :
                   /\ ew_st' = [ew_st EXCEPT !.ret = r, !.last = <<"write", r>>,
                                             !.emitted = Append(@, pkt),
                                             !.result = ReturnValue(r, ew_arg.flush)]
                   /\ ew_pc' = "returned"
  /\ UNCHANGED ew_arg
  /\ UNCHANGED notEwVars

EwNext ==
  \/ EW_Call
  \/ EW_Send
  \/ EW_Receive

SpecEncode == EwInit /\ [][EwNext]_vars

(***************************************************************************)
(* Claims about handle_video_phase1 and the detectors (SpecPhase1)         *)
(***************************************************************************)

\* C4: crop_gpu is only ever invoked with a rectangle that has valid = TRUE
\* and passes is_good_crop for the probed source dimensions; an invalid
\* rectangle, from either detector, is never applied.
C4_CropOnlyGoodRect ==
  crop_arg.called =>
    /\ crop_arg.rect.valid
    /\ crop_arg.rect.w > 0 /\ crop_arg.rect.h > 0
    /\ is_good_crop(crop_arg.rect, src.ow, src.oh)
    /\ ow = src.ow /\ oh = src.oh

\* C4 witness: a gradient rectangle is applied after the multi-probe
\* detector returned a valid rectangle that failed the goodness test.
C4_Witness ==
  /\ h_pc = "crop_gpu"
  /\ crop_arg.called
  /\ mode = "gradient"
  /\ crop_arg.rect = alt_rect

\* C5: when the crop engine exits nonzero and handle_video_phase1 returns,
\* it returns copy_after_error and the intermediate path holds the
\* unmodified copy; and whenever it returns crop[ffmpeg], crop[gradient],
\* copy or copy_after_error a complete output file exists at that path.
C5_OutputExists ==
  /\ (crop_ret = "nonzero" /\ h_pc = "returned" /\ status # "threw")
       => (status = "copy_after_error" /\ dst_file = "copy")
  /\ status = "copy_after_error" => crop_ret # "zero"
  /\ status \in {"crop[ffmpeg]", "crop[gradient]"} => dst_file = "cropped"
  /\ status \in {"copy", "copy_after_error"} => dst_file = "copy"

\* C5 witness: the engine failed leaving a partial file, and the handler
\* returned copy_after_error.
C5_Witness ==
  /\ crop_ret = "nonzero"
  /\ status = "copy_after_error"
  /\ dst_file = "copy"

\* reference minimum / maximum over all probe rectangles
RefMinX(rs) == CHOOSE m \in {rs[i].x : i \in 1..Len(rs)} : \A i \in 1..Len(rs) : m <= rs[i].x
RefMinY(rs) == CHOOSE m \in {rs[i].y : i \in 1..Len(rs)} : \A i \in 1..Len(rs) : m <= rs[i].y
RefMaxR(rs) ==
  CHOOSE m \in {rs[i].x + rs[i].w : i \in 1..Len(rs)} : \A i \in 1..Len(rs) : m >= rs[i].x + rs[i].w
RefMaxB(rs) ==
  CHOOSE m \in {rs[i].y + rs[i].h : i \in 1..Len(rs)} : \A i \in 1..Len(rs) : m >= rs[i].y + rs[i].h

\* C9: for every non-empty set of probe rectangles detect_crop_ffmpeg
\* returns (left, top, right - left, bottom - top) with
\* left = max(0, min x - margin), top = max(0, min y - margin),
\* right = max(x+w) + margin, bottom = max(y+h) + margin; and with margin 0
\* the result is the raw union (min x, min y, max(x+w) - min x, max(y+h) - min y).
C9_MarginExpandedUnion ==
  (h_pc = "check_ffmpeg" /\ rects # <<>>) =>
    LET left == Max2(0, RefMinX(rects) - SAFE_MARGIN_PX)
        top == Max2(0, RefMinY(rects) - SAFE_MARGIN_PX)
        right == RefMaxR(rects) + SAFE_MARGIN_PX
        bottom == RefMaxB(rects) + SAFE_MARGIN_PX
    IN /\ rect = CropRect(left, top, right - left, bottom - top, TRUE)
       /\ UnionWithMargin(rects, 0) =
            CropRect(RefMinX(rects), RefMinY(rects),
                     RefMaxR(rects) - RefMinX(rects),
                     RefMaxB(rects) - RefMinY(rects), TRUE)

\* C9 witness: three different probe rectangles were aggregated, the left
\* edge was clamped at 0 and the top edge was not.
C9_Witness ==
  /\ h_pc = "check_ffmpeg"
  /\ Len(rects) = FFMPEG_PROBES
  /\ rects[1] # rects[2] /\ rects[2] # rects[3] /\ rects[1] # rects[3]
  /\ RefMinX(rects) < SAFE_MARGIN_PX
  /\ RefMinY(rects) > SAFE_MARGIN_PX
  /\ rect.valid

\* C10: for the 1280x720 source whose probes each report (0, 80, 1280, 560)
\* the multi-probe detector returns x = 0, y in 76..84, width = 1280 and
\* height in 556..564, and the cropped output height is even.
C10_ScenarioRect ==
  /\ (/\ src = ScenarioSrc
      /\ h_pc = "check_ffmpeg"
      /\ rects # <<>>
      /\ \A i \in 1..Len(rects) : rects[i] = ScenarioRect)
       => (/\ rect.x = 0
           /\ rect.y \in 76..84
           /\ rect.w = 1280
           /\ rect.h \in 556..564)
  /\ (src = ScenarioSrc /\ crop_arg.called) => crop_arg.crop_h % 2 = 0

(***************************************************************************)
(* Claims about phase1_crop, phase2_extract and main.                      *)
(***************************************************************************)
InFlight == {v \in Videos : task[v] \in {"running", "ready"}}

InPhase1 == {"p1_loop", "p1_poll", "p1_submit", "p1_drain"}

InPhase2 == m_pc \in {"p2_enum", "p2_loop", "p2_extract"}

\* C6: the batch never aborts on a single video's failure.  main returns 1
\* only from the tool check, before any video was touched; phase1_crop is
\* left only into phase2_extract; when main returns 0 every enumerated video
\* was submitted and collected in phase 1, whatever the others did, and every
\* .mp4 file phase 1 left in CROPPED_DIR was handed to extract_frames_for_video.
C6_BatchNeverAborts ==
  /\ [](m_ret = 1 => \A v \in Videos : task[v] = "notstarted")
  /\ []((m_pc = "exit" /\ m_ret = 0 /\ input_dir)
          => \A v \in Videos : task[v] = "collected")
  /\ []((m_pc = "exit" /\ m_ret = 0)
          => \A v \in Videos : (file[v] # "absent" /\ IsMp4(DstPath(vids[v]))) => p2_result[v] # "none")
  /\ [][(m_pc \in InPhase1) => (m_pc' \in InPhase1 \cup {"p2_enum"})]_vars

\* main has returned 0 after the second of four videos threw in its worker and
\* a later one threw in extraction, and the videos after them ran all the same
C6_Witness ==
  /\ m_pc = "exit" /\ m_ret = 0
  /\ Len(vids) = MaxVideos
  /\ result[2] = "threw"
  /\ result[1] = "error_dimensions"
  /\ result[3] = "ok" /\ p2_result[3] = "threw"
  /\ result[4] = "ok" /\ p2_result[4] = "returned"

Admitted == \E v \in Videos : task[v] = "notstarted" /\ task'[v] = "running"

\* C7: at most MAX_WORKERS tasks are submitted and not yet collected; a task
\* is admitted only when fewer than MAX_WORKERS are in flight; and while the
\* orchestrator waits at a saturated pool, a completed task at any position of
\* futures leads to the next submission.
C7_BoundedInFlight ==
  /\ [](Cardinality(InFlight) <= MAX_WORKERS)
  /\ [][Admitted => (Cardinality(InFlight) < MAX_WORKERS)]_vars
  /\ \A i \in 1..MAX_WORKERS :
       (m_pc = "p1_poll" /\ i <= Len(futures) /\ Ready(task[futures[i]]))
         ~> (m_pc = "p1_submit")

\* the fourth video is about to be admitted because the youngest of the three
\* in flight was collected; the two older ones are still running
C7_Witness ==
  /\ m_pc = "p1_submit"
  /\ next_v = MAX_WORKERS + 1
  /\ one_completed
  /\ task[MAX_WORKERS] = "collected"
  /\ \A v \in 1..(MAX_WORKERS - 1) : task[v] = "running"
  /\ futures = [j \in 1..(MAX_WORKERS - 1) |-> j]

\* C8: phase 2 runs only when no phase-1 task is outstanding (every submitted
\* task has been collected), at most one extract_frames_for_video is in
\* progress, and an extraction begins only when none is in progress.
C8_Phase2AfterPhase1Sequential ==
  /\ [](InPhase2 => \A v \in Videos : task[v] \in {"collected", "notstarted"})
  /\ [](InPhase2 /\ input_dir => \A v \in Videos : task[v] = "collected")
  /\ [](Cardinality(extracting) <= 1)
  /\ [][(extracting' # extracting /\ extracting' # {}) => (extracting = {})]_vars

\* the second cropped video is being extracted after the first one threw, in a
\* batch that needed the pool to be polled
C8_Witness ==
  /\ m_pc = "p2_extract"
  /\ Len(vids) > MAX_WORKERS
  /\ p2_i = 2
  /\ p2_result[cropped_videos[1]] = "threw"
  /\ extracting = {cropped_videos[2]}

(***************************************************************************)
(* Claims about main of crop/main.cpp.                                     *)
(***************************************************************************)
\* the frames that entered the filter graph, in order
Handed == SelectSeq(hist, LAMBDA e : e.fed)

\* C1: the presentation timestamps of the frames handed from the decode stage
\* (main loop, then decoder flush) to the filter graph are strictly increasing.
C1_StrictlyIncreasing ==
  \A i \in 1..(Len(Handed) - 1) : Handed[i].out < Handed[i + 1].out

\* the last timestamp passed on before frame i, NOPTS if there is none
LastPassed(i) ==
  LET S == {j \in 1..(i - 1) : hist[j].out # NOPTS}
  IN IF S = {} THEN NOPTS
     ELSE hist[CHOOSE j \in S : \A m \in S : m <= j].out

FirstPresent(i) ==
  /\ hist[i].orig # NOPTS
  /\ \A j \in 1..(i - 1) : hist[j].orig = NOPTS

NonViolating(i) ==
  /\ hist[i].orig # NOPTS
  /\ \/ FirstPresent(i)
     \/ LastPassed(i) # NOPTS /\ hist[i].orig > LastPassed(i)

\* C2: a frame whose PTS is present and greater than the last timestamp
\* passed on, or which is the first frame with a present PTS, leaves the
\* decode stage with its PTS unchanged and last_input_pts equal to it; a
\* timestamp is changed only if it is missing or not greater than the last
\* one passed on.
C2_PreservesNonViolating ==
  \A i \in 1..Len(hist) :
    /\ NonViolating(i) => (hist[i].out = hist[i].orig /\ hist[i].last = hist[i].orig)
    /\ hist[i].out # hist[i].orig
         => \/ hist[i].orig = NOPTS
            \/ LastPassed(i) # NOPTS /\ hist[i].orig <= LastPassed(i)

\* C3: no reference or container is released twice, and when main has
\* returned every hardware-context reference acquired has been released and
\* every container opened has been closed, exactly once.
C3_ResourcesBalanced ==
  /\ ~res.dbl
  /\ pl_pc = "returned"
       => /\ res.acq["hwref"] = res.rel["hwref"]
          /\ res.acq["container"] = res.rel["container"]
          /\ res.live \cap (HwRefPtrs \cup ContainerPtrs) = {}

\* main has returned after a failure in the middle of the loop, with the
\* device, the manually built decoder pool and its extra reference, the
\* filter-init references, the encoder pool, a repaired decoded frame and a
\* repaired filtered frame acquired, and all three containers opened
C3_Witness ==
  /\ pl_pc = "returned"
  /\ ret = "ERR"
  /\ hist # <<>>
  /\ res.acq["hwref"] >= 10
  /\ res.acq["container"] = 3

(***************************************************************************)
(* Claims about is_good_crop (SpecGoodCrop).                               *)
(***************************************************************************)
\* the reference predicate, in hundredths: MIN_CROP_RATIO is 10 hundredths,
\* the sliver limit 5 hundredths
RefGoodCrop(r, o_w, o_h) ==
  /\ r.valid /\ r.w > 0 /\ r.h > 0
  /\ \/ 100 * r.w < (100 - 10) * o_w
     \/ 100 * r.h < (100 - 10) * o_h
  /\ 100 * r.w > 5 * o_w
  /\ 100 * r.h > 5 * o_h

\* C11: is_good_crop returns true exactly when the rectangle is valid with
\* w > 0 and h > 0, and w < 0.9 ow or h < 0.9 oh, and w > 5% of ow and
\* h > 5% of oh.
C11_GoodCropReference ==
  gc_eval.called => (gc_eval.ret <=> RefGoodCrop(gc_rect, gc_ow, gc_oh))

\* is_good_crop returned true for a rectangle that shrinks the width only,
\* and by the smallest amount that counts
C11_Witness ==
  /\ gc_eval.ret
  /\ gc_ow = MaxDim /\ gc_oh = MaxDim
  /\ gc_rect.h = MaxDim
  /\ 10 * (gc_rect.w + 1) >= 9 * gc_ow
  /\ 10 * gc_rect.w < 9 * gc_ow

\* a rectangle exactly at (1 - ratio) x original in both dimensions
AtThreshold == 10 * gc_rect.w = 9 * gc_ow /\ 10 * gc_rect.h = 9 * gc_oh

\* C12: significant_crop is false at exactly (1 - ratio) x original in width
\* and height, true for every width (or height) strictly below it, and once
\* true stays true as that dimension shrinks further.
C12_SignificantCropMonotonic ==
  /\ []((gc_eval.reached /\ AtThreshold) => ~gc_eval.significant_crop)
  /\ []((gc_eval.reached /\ 10 * gc_rect.w < 9 * gc_ow) => gc_eval.significant_crop)
  /\ []((gc_eval.reached /\ 10 * gc_rect.h < 9 * gc_oh) => gc_eval.significant_crop)
  /\ [][(GC_ShrinkW \/ GC_ShrinkH) /\ gc_eval.significant_crop
          => gc_eval'.significant_crop]_vars

\* is_good_crop was called with an 18 x 9 rectangle for a 20 x 10 original:
\* exactly 0.9 of both, and the shrink test is false
C12_Witness ==
  /\ gc_eval.reached
  /\ AtThreshold
  /\ gc_rect.w # gc_rect.h
  /\ ~gc_eval.significant_crop
  /\ gc_eval.sensible_size

(***************************************************************************)
(* Further claims about handle_video_phase1 (SpecPhase1)                   *)
(***************************************************************************)

\* line 394 has been decided
PastApply == h_pc \in {"copy", "crop_gpu", "copy_after_error", "returned"} /\ status # "error_dimensions"

\* Neither detector's rectangle passed is_good_crop: the multi-probe one failed
\* at line 382, so detect_gradient ran, and its rectangle failed at line 385,
\* which leaves rect as the multi-probe detector returned it.
NeitherGood ==
  /\ PastApply
  /\ ow = src.ow /\ oh = src.oh
  /\ ~is_good_crop(rect, ow, oh)
  /\ ~is_good_crop(alt_rect, ow, oh)

\* C13: if neither the multi-probe nor the gradient rectangle passes
\* is_good_crop (both invalid included), handle_video_phase1 does not invoke
\* crop_gpu, copies the original to the intermediate path and returns the
\* status copy, never an error status.
C13_NoGoodCropCopies ==
  /\ [](NeitherGood => (~crop_arg.called /\ crop_ret = "notrun" /\ mode = "ffmpeg"))
  /\ [](NeitherGood => status \in {"running", "copy", "threw"})
  /\ []((NeitherGood /\ h_pc = "returned" /\ status # "threw") => (status = "copy" /\ dst_file = "copy"))
  /\ [][(h_pc = "apply" /\ ~is_good_crop(rect, ow, oh)) => (h_pc' = "copy" /\ ~crop_arg'.called)]_vars
  /\ [](status = "copy" => NeitherGood)

\* the 1280x720 source fills its frame: both detectors returned a valid
\* rectangle, neither passed, and the handler returned copy
C13_Witness ==
  /\ h_pc = "returned"
  /\ status = "copy"
  /\ dst_file = "copy"
  /\ rect.valid /\ alt_rect.valid
  /\ src = ScenarioSrc

(***************************************************************************)
(* Further claims about phase1_crop and phase2_extract (SpecBatch)         *)
(***************************************************************************)

\* phase1_crop ran over a non-empty batch and has returned
Phase1Completed == m_pc \in {"p2_enum", "p2_loop", "p2_extract", "exit"} /\ m_ret # 1 /\ input_dir /\ vids # <<>>

\* phase2_extract has enumerated CROPPED_DIR
Phase2Enumerated == m_pc \in {"p2_loop", "p2_extract", "exit"} /\ m_ret # 1

\* C14: after phase 1 the intermediate directory holds exactly one .mp4 file
\* per enumerated input video, of any accepted extension, with the same base
\* filename, so that phase 2 picks up every input video.
C14_OneMp4PerInput ==
  /\ Phase1Completed => \A v \in Videos : (file[v] = "present" /\ DstPath(vids[v]) = Path("CROPPED_DIR", v, ".mp4"))
  /\ (Phase1Completed /\ Phase2Enumerated) => \A v \in Videos : \E i \in 1..Len(cropped_videos) : cropped_videos[i] = v

(***************************************************************************)
(* Claims about ffprobe_val and its callers (SpecProbe)                    *)
(***************************************************************************)

\* ffprobe wrote nothing but white space
NothingWritten(out) == \A i \in 1..Len(out) : out[i] \in {" ", "\n", "\r", "\t"}

\* a returned text that cannot be read as a number
NotANumber(val) == val = <<>> \/ val[1] \notin {"0", "1", "2", "3", "4", "5", "6", "7", "8", "9", "."}

\* ffprobe_val has returned to its caller
Probed == fp_pc \in {"call2", "use", "done"} /\ fp_val # Threw

C16_FlushOrder ==
  /\ pl_pc \in {"flush_filter", "flush_filter_sink"} => job.dec_eof
  /\ pl_pc = "flush_enc" => (job.dec_eof /\ job.filt_eof)
  /\ job.trailer => (job.dec_eof /\ job.filt_eof)

\* C17: an unexpected negative result of a send / receive operation in the
\* loop is fatal: no further frame is processed, the partial output is
\* abandoned and not finalized, the resources are released and the job ends
\* Failed.
C17_FatalAbandons ==
  /\ job.fatal => (~job.late /\ ~job.trailer)
  /\ (job.fatal /\ pl_pc = "returned") => (exit_status = "EXIT_FAILURE" /\ res.live = {})

(***************************************************************************)
(* Claims about the three detectors (SpecDetectors)                        *)
(***************************************************************************)

\* C18: every CropRect a detector returns with valid = true has w > 0, h > 0,
\* x >= 0 and y >= 0.
C18_ValidRectPositive ==
  (dt_pc = "done" /\ dt_out.valid) =>
    (dt_out.w > 0 /\ dt_out.h > 0 /\ dt_out.x >= 0 /\ dt_out.y >= 0)

\* three probes matched crop=0:0:X:Y and detect_crop_ffmpeg returned a valid
\* rectangle, as wide and high as the margin makes it
C18_Witness ==
  /\ dt_pc = "done"
  /\ dt_in.kind = "ffmpeg"
  /\ Len(dt_in.obs) = FFMPEG_PROBES
  /\ \A i \in 1..Len(dt_in.obs) : dt_in.obs[i].w = 0 /\ dt_in.obs[i].h = 0 /\ dt_in.obs[i].x = 0
  /\ dt_out.valid
  /\ dt_out.w = SAFE_MARGIN_PX

(***************************************************************************)
(* Claims about the fallback of extract_frames_for_video (SpecExtractFair) *)
(***************************************************************************)

\* the fallback block of lines 576-620 was entered
FallbackEntered == fb_end # "none"

\* frames kept so far
Kept == (IF ex_pc = "loop" THEN current_fallback_count ELSE final_frame_idx) - 1

\* C19: the fallback is entered exactly when fewer than MIN_FRAMES frames
\* survived the scene pass; it always terminates, stopping when the kept
\* count reaches MIN_FRAMES or after at most 2 x MIN_FRAMES iterations; and it
\* never adds frames beyond MIN_FRAMES.
C19_FallbackBounded ==
  /\ []((ex_pc = "loop" \/ (ex_pc = "done" /\ ex_exit # "exception"))
          => (FallbackEntered <=> scene_kept < MIN_FRAMES))
  /\ [](fb_i <= 2 * MIN_FRAMES)
  /\ [](FallbackEntered => (Kept <= MIN_FRAMES /\ Kept = scene_kept + Len(fb_written)))
  /\ []((ex_pc = "done" /\ fb_end = "condition") => (Kept = MIN_FRAMES \/ fb_i = 2 * MIN_FRAMES))
  /\ [][(ex_pc = "loop" /\ ex_pc' = "loop") => (fb_i' = fb_i + 1 /\ Kept < MIN_FRAMES)]_vars
  /\ (ex_pc = "loop") ~> (ex_pc = "done")

\* the fallback gave up after 2 x MIN_FRAMES iterations, short of MIN_FRAMES
C19_Witness ==
  /\ ex_pc = "done"
  /\ fb_end = "condition"
  /\ fb_i = 2 * MIN_FRAMES
  /\ Kept < MIN_FRAMES
  /\ fb_written # <<>>

\* sample positions of the opened video that hold a frame with content
GoodSamples == {j \in SampleIndexes : (total_frames = 0 \/ j * step < total_frames) /\ video.at[j] = "ok"}

\* C20: if the scene pass keeps fewer than MIN_FRAMES frames, then after the
\* fallback the kept count is at least MIN_FRAMES whenever the video has at
\* least MIN_FRAMES non-blank frames at the evenly spaced sample positions; a
\* blank frame at one sample position does not keep the others from being
\* sampled.
C20_FallbackReachesMinimum ==
  (/\ ex_pc = "done"
   /\ fb_end \notin {"none", "not_opened"}
   /\ \A j \in SampleIndexes : video.at[j] # "unreadable"
   /\ Cardinality(GoodSamples) >= MIN_FRAMES)
    => Kept >= MIN_FRAMES

\* C21: when extract_frames_for_video completes for a video (by normal
\* return, early return from the fallback, or exception), no intermediate
\* scene-cut image and no temporary scene-cut directory remains.
C21_NoSceneCutsRemain ==
  ex_pc = "done" => (~scene_tmp.exists /\ scene_tmp.files = {})

(***************************************************************************)
(* Claims about the hardware frames of crop/main.cpp (SpecPipeline)        *)
(***************************************************************************)

\* a decoded frame has been fed to the filter graph and main still holds it
\* (AV_BUFFERSRC_FLAG_KEEP_REF); its format is AV_PIX_FMT_CUDA, the decoder
\* having negotiated it
FrameFed == pl_pc \in {"sink", "flush_sink"}

\* this step hands one filtered frame to encode_write_frame
EncodesFrame == pending' = pending - 1

\* C22: every hardware frame fed into the filter graph or sent to the encoder
\* carries a hardware-frame-context reference: a decoded frame lacking one is
\* repaired from the decoder's pool, a sink frame lacking one from the
\* encoder's pool, and a frame that obtains neither is not passed on.
C22_HwFramesCarryContext ==
  /\ [](FrameFed => IsSet(res, "frame.hw_frames_ctx"))
  /\ [][EncodesFrame => res'.acq["hwref"] = res.acq["hwref"] + 1]_vars

\* position of pointer p in what the cleanup released, 0 when it was not set
ReleasedAt(p) ==
  LET at == {i \in 1..Len(job.released) : job.released[i] = p}
  IN IF at = {} THEN 0 ELSE CHOOSE i \in at : TRUE

\* p was released, and before q was
ReleasedBefore(p, q) == ReleasedAt(p) > 0 /\ ReleasedAt(p) < ReleasedAt(q)

\* every reference of refs that was held was released before ctx was freed
AllBefore(refs, ctx) ==
  LET freed == ReleasedAt(ctx)
  IN freed > 0 => \A p \in refs : LET at == ReleasedAt(p) IN at > 0 => at < freed

\* the references the cleanup can find on the decoder's frame pool
DecoderPoolRefs == {"decoder_ctx.hw_frames_ctx", "decoder_hw_frames_ctx_ref", "frame.hw_frames_ctx"}

\* the references the cleanup can find on the encoder's frame pool
EncoderPoolRefs == {"encoder_ctx_global.hw_frames_ctx", "filt_frame.hw_frames_ctx"}

\* the device reference, when released, is the last thing released
DeviceLast ==
  ReleasedAt("hw_device_ctx_ref_global") > 0
    => ReleasedAt("hw_device_ctx_ref_global") = Len(job.released)

\* the cleanup released exactly what was still held
ReleasedAll ==
  /\ res.live = {}
  /\ \A p \in PtrNames : ~IsSet(res, p) \/ p = "output_format_ctx_global"

\* C23 as stated: teardown releases every reference held on the decoder's
\* frame pool before the decoder context is freed, the encoder's frame pool
\* before the encoder context, and the device reference last, on every exit
\* path.
C23_TeardownOrderAllRefs ==
  pl_pc = "returned" =>
    /\ AllBefore(DecoderPoolRefs, "decoder_ctx")
    /\ AllBefore(EncoderPoolRefs, "encoder_ctx_global")
    /\ DeviceLast

\* C23, amended: the references the decoder context and the frames hold on
\* the decoder's frame pool are released before the decoder context is freed,
\* and the extra reference main keeps on that pool right after it; the
\* encoder's frame pool is released before the encoder context is freed; the
\* device reference is released last; and nothing stays held.
C23_TeardownOrder ==
  pl_pc = "returned" =>
    /\ AllBefore(DecoderPoolRefs \ {"decoder_hw_frames_ctx_ref"}, "decoder_ctx")
    /\ ReleasedAt("decoder_hw_frames_ctx_ref") > 0
         => ReleasedAt("decoder_hw_frames_ctx_ref") = ReleasedAt("decoder_ctx") + 1
    /\ AllBefore(EncoderPoolRefs, "encoder_ctx_global")
    /\ AllBefore({"decoder_ctx.hw_device_ctx", "filter_graph_global", "decoder_ctx",
                  "encoder_ctx_global"} \cup DecoderPoolRefs \cup EncoderPoolRefs,
                 "hw_device_ctx_ref_global")
    /\ DeviceLast
    /\ ReleasedAll

\* main has returned after a failure in the loop with both pools, a repaired
\* decoded frame, the extra reference, the graph and the device still held
C23_Witness ==
  /\ pl_pc = "returned"
  /\ ret = "ERR"
  /\ ReleasedBefore("frame.hw_frames_ctx", "filter_graph_global")
  /\ ReleasedBefore("filter_graph_global", "decoder_ctx.hw_frames_ctx")
  /\ ReleasedBefore("decoder_ctx", "decoder_hw_frames_ctx_ref")
  /\ ReleasedBefore("encoder_ctx_global.hw_frames_ctx", "encoder_ctx_global")
  /\ ReleasedBefore("encoder_ctx_global", "hw_device_ctx_ref_global")

(***************************************************************************)
(* Claims about encode_write_frame (SpecEncode)                            *)
(***************************************************************************)
EwReturned == ew_pc = "returned"

\* the call ended on the encoder's answer r to avcodec_receive_packet
EndedOnReceive(r) == ew_st.last = <<"receive", r>>

\* the normal terminal conditions give 0
TerminalIsSuccess ==
  /\ (EwReturned /\ ew_arg.filt_frame = "nullptr" /\ ew_arg.flush /\ EndedOnReceive("EOF"))
       => ew_st.result = "0"
  /\ (EwReturned /\ ~ew_arg.flush /\ EndedOnReceive("EAGAIN")) => ew_st.result = "0"

\* packets reach the output in the order the encoder emits them
WrittenInOrder ==
  /\ Len(ew_st.written) <= Len(ew_st.emitted)
  /\ ew_st.written = SubSeq(ew_st.emitted, 1, Len(ew_st.written))
  /\ Len(ew_st.emitted) - Len(ew_st.written) <= 1

\* C24 as stated: encode_write_frame returns 0 on the terminal conditions
\* (null frame, flush and EOF; no flush and EAGAIN), returns a negative error
\* only for an unexpected negative result from sending the frame, receiving a
\* packet or writing a packet, and writes packets in the order emitted.
C24_EncodeReturnsOnlyLibavErrors ==
  /\ TerminalIsSuccess
  /\ (EwReturned /\ ew_st.result # "0")
       => /\ ew_st.last[1] \in {"send", "receive", "write"}
          /\ ew_st.last[2] = ew_st.result
  /\ WrittenInOrder

\* C24, amended: the same, and a negative error is also returned when the
\* packet cannot be allocated, before anything is sent.
C24_EncodeReturn ==
  /\ TerminalIsSuccess
  /\ (EwReturned /\ ew_st.result # "0")
       => \/ /\ ew_st.last[1] \in {"send", "receive", "write"}
             /\ ew_st.last[2] = ew_st.result
             /\ ew_st.last[2] \in AvErrors
             /\ ~(ew_st.last[2] = "EAGAIN" /\ ~ew_arg.flush)
             /\ ~(ew_st.last[2] = "EOF" /\ ew_arg.flush)
          \/ /\ ew_st.last = <<"alloc", "ENOMEM">>
             /\ ew_st.emitted = <<>>
  /\ (EwReturned /\ ew_st.result = "0") => ew_st.last[1] \in {"receive", "write"}
  /\ WrittenInOrder

\* the flush call drained two packets and ended on the encoder's EOF
C24_Witness ==
  /\ EwReturned
  /\ ew_arg = [filt_frame |-> "nullptr", flush |-> TRUE]
  /\ EndedOnReceive("EOF")
  /\ ew_st.written = <<1, 2>>
  /\ ew_st.result = "0"

(***************************************************************************)
(* Strategy order in handle_video_phase1 (SpecPhase1)                      *)
(***************************************************************************)

\* detect_crop_ffmpeg has returned: the handler is at the test of line 382
AfterMultiProbe == h_pc = "check_ffmpeg"

\* the step that calls detect_gradient (line 384)
CallsGradient == h_pc = "gradient" /\ h_pc' # "gradient"

\* C25: in handle_video_phase1 detect_gradient is invoked if and only if the
\* rectangle returned by the multi-probe strategy fails is_good_crop, and
\* only after that strategy has returned; the status crop[gradient] is
\* returned only when the multi-probe rectangle failed the test and the
\* gradient rectangle passed it, and crop[ffmpeg] only when the multi-probe
\* rectangle passed it.
C25_GradientIffFfmpegFails ==
  /\ [][(AfterMultiProbe /\ h_pc' # h_pc)
          => /\ (h_pc' = "gradient" <=> ~is_good_crop(rect, ow, oh))
             /\ (h_pc' = "apply" <=> is_good_crop(rect, ow, oh))]_vars
  /\ [][(h_pc' = "gradient" /\ h_pc # "gradient")
          => (AfterMultiProbe /\ ~is_good_crop(rect, ow, oh))]_vars
  /\ [][h_pc' = "check_ffmpeg" => h_pc \in {"duration", "probe", "check_ffmpeg"}]_vars
  /\ [][(alt_rect' # alt_rect \/ mode' # mode) => CallsGradient]_vars
  /\ [][(CallsGradient /\ status' # "threw")
          => (mode' = "gradient" <=> is_good_crop(alt_rect', ow, oh))]_vars
  /\ [](status = "crop[gradient]"
          => (mode = "gradient" /\ rect = alt_rect /\ is_good_crop(alt_rect, ow, oh)))
  /\ [](status = "crop[ffmpeg]"
          => (mode = "ffmpeg" /\ alt_rect = InvalidRect /\ is_good_crop(rect, ow, oh)))
  /\ [](mode = "gradient" => h_pc \notin {"dims", "duration", "probe", "check_ffmpeg", "gradient"})

\* the multi-probe strategy found nothing good, the gradient strategy did,
\* and the handler returned crop[gradient]
C25_Witness ==
  /\ h_pc = "returned"
  /\ status = "crop[gradient]"
  /\ mode = "gradient"
  /\ crop_arg.called /\ crop_arg.rect = alt_rect
  /\ is_good_crop(alt_rect, ow, oh)

(***************************************************************************)
(* The decoder's hardware frame pool (SpecPipeline)                        *)
(***************************************************************************)

\* an output container, an encoder or a filter graph exists or has existed
OutputSideCreated ==
  \E p \in {"output_format_ctx_global", "encoder_ctx_global", "filter_graph_global"} :
    IsSet(res, p) \/ ReleasedAt(p) > 0

\* the decoder context holds or held, up to the cleanup, a frame pool
DecoderHadPool ==
  IsSet(res, "decoder_ctx.hw_frames_ctx") \/ ReleasedAt("decoder_ctx.hw_frames_ctx") > 0

\* the job fails in this step
FailsNow == pl_pc' = "cleanup" /\ ret' = "EXIT_FAILURE"

\* C26: after a hardware decoder is opened with the hardware pixel format and
\* without a frame pool of its own, main allocates one with 20 buffers of
\* the decoder's width and height and attaches it; a hardware decoder whose
\* pool is still unset, or which does not report the hardware pixel format,
\* makes the job fail before an output container, an encoder or a filter
\* graph is created.
C26_HwPoolAttachedOrFatal ==
  /\ [][(pl_pc = "manual_pool" /\ is_hw_decoder /\ pix_fmt_cuda
           /\ ~IsSet(res, "decoder_ctx.hw_frames_ctx"))
          => \/ FailsNow
             \/ /\ pl_pc' = "attach_pool"
                /\ IsSet(res', "frames_ref")
                /\ job'.dec \in DecoderSizes
                /\ job'.frames_ctx.initial_pool_size = 20
                /\ job'.frames_ctx.width = job'.dec.width
                /\ job'.frames_ctx.height = job'.dec.height
                /\ job'.frames_ctx.format = "AV_PIX_FMT_CUDA"]_vars
  /\ [][(pl_pc = "manual_pool" /\ ~(is_hw_decoder /\ pix_fmt_cuda
                                     /\ ~IsSet(res, "decoder_ctx.hw_frames_ctx")))
          => (pl_pc' = "extra_ref" /\ res' = res)]_vars
  /\ [][pl_pc = "attach_pool"
          => \/ FailsNow
             \/ pl_pc' = "extra_ref" /\ ~IsSet(res', "frames_ref")]_vars
  /\ [][(pl_pc = "extra_ref" /\ is_hw_decoder
           /\ (~pix_fmt_cuda \/ ~IsSet(res, "decoder_ctx.hw_frames_ctx")))
          => (FailsNow /\ res' = res)]_vars
  /\ []((is_hw_decoder /\ OutputSideCreated) => (pix_fmt_cuda /\ DecoderHadPool))
  /\ []((is_hw_decoder /\ pl_pc = "returned" /\ ~DecoderHadPool)
          => (exit_status = "EXIT_FAILURE" /\ ~OutputSideCreated))

\* the hardware decoder reported the hardware format without a pool, main
\* allocated one and could not attach it, and the job failed with nothing
\* but the input, the decoder and the device to release
C26_Witness ==
  /\ pl_pc = "returned"
  /\ exit_status = "EXIT_FAILURE"
  /\ is_hw_decoder /\ pix_fmt_cuda
  /\ res.acq["hwref"] = 3 /\ res.rel["hwref"] = 3
  /\ job.released = << "decoder_ctx.hw_device_ctx", "decoder_ctx", "input_format_ctx",
                       "hw_device_ctx_ref_global" >>

(***************************************************************************)
(* init_filters and the frame pool of the buffer source (SpecPipeline)     *)
(***************************************************************************)

\* the locals of init_filters that own something
FilterLocals == {"src_par", "src_par.hw_frames_ctx", "inputs", "outputs"}

\* main is in the decode loop or in the flush stages
Decoding ==
  pl_pc \in {"read", "receive", "sink", "flush_dec", "flush_receive", "flush_sink",
             "flush_filter", "flush_filter_sink", "flush_enc"}

\* C27: init_filters fails, and the job with it before anything is decoded,
\* whenever the decoder description it is given has no hardware frame pool;
\* and on every return path, success or failure, the frame-pool reference
\* taken for the buffer-source parameters has been released and the
\* parameters and the in/out descriptors have been freed.
C27_InitFiltersNeedsPool ==
  /\ [][(pl_pc = "init_filters" /\ ~IsSet(res, "temp_dec_ctx_for_filter.hw_frames_ctx"))
          => (FailsNow /\ n_decoded' = 0)]_vars
  /\ [][pl_pc = "init_filters"
          => /\ \A p \in FilterLocals : ~IsSet(res', p) /\ p \notin res'.live
             /\ ~res'.dbl
             /\ res'.live \ {"filter_graph_global"} =
                  res.live \ {"temp_dec_ctx_for_filter", "temp_dec_ctx_for_filter.hw_frames_ctx"}
             /\ pl_pc' \in {"encoder_pool", "cleanup"}
             /\ (pl_pc' = "cleanup" => ret' = "EXIT_FAILURE")]_vars
  /\ [](\A p \in FilterLocals : ~IsSet(res, p) /\ p \notin res.live)
  /\ []((Decoding \/ n_decoded > 0)
          => (is_hw_decoder /\ (pl_pc # "returned" => IsSet(res, "decoder_ctx.hw_frames_ctx"))))

\* a software decoder: its description has no frame pool, init_filters got as
\* far as the buffer-source parameters (line 120), failed at line 149 and
\* left only the filter graph behind
C27_Witness ==
  /\ pl_pc = "cleanup"
  /\ decoder = "software"
  /\ ret = "EXIT_FAILURE"
  /\ res.acq["filter"] = 4 /\ res.rel["filter"] = 3
  /\ IsSet(res, "filter_graph_global")
  /\ IsSet(res, "encoder_ctx_global")
  /\ ~IsSet(res, "temp_dec_ctx_for_filter")

(***************************************************************************)
(* The crop size in the command of crop_gpu (SpecPhase1)                   *)
(***************************************************************************)

\* the width of the picture the issued command asks ffmpeg to keep
ImpliedWidth(cmd, o_w) ==
  IF cmd.branch = "-crop" THEN o_w - cmd.args[3] - cmd.args[4] ELSE cmd.args[1]

\* the height of the picture the issued command asks ffmpeg to keep
ImpliedHeight(cmd, o_h) ==
  IF cmd.branch = "-crop" THEN o_h - cmd.args[1] - cmd.args[2] ELSE cmd.args[2]

\* crop_gpu has built and issued its command
CommandIssued == crop_arg.cmd.branch # "none"

\* make_even(x) is even and is x or x + 1, for the sizes a rectangle can have
MakeEvenRoundsUp ==
  \A x \in (0 - MaxDim)..MaxDim :
    make_even(x) % 2 = 0 /\ x <= make_even(x) /\ make_even(x) <= x + 1

\* C28: in every branch of the command crop_gpu issues (crop_cuda filter,
\* cuvid decoder with its -crop option, crop filter) the crop width and height
\* are rect.w and rect.h rounded up to the nearest even value: make_even(x) is
\* even with x <= make_even(x) <= x + 1, and the width and height implied by
\* the issued command are even.
C28_CropSizeEven ==
  /\ MakeEvenRoundsUp
  /\ CommandIssued =>
       /\ ImpliedWidth(crop_arg.cmd, ow) = make_even(crop_arg.rect.w)
       /\ ImpliedHeight(crop_arg.cmd, oh) = make_even(crop_arg.rect.h)
       /\ ImpliedWidth(crop_arg.cmd, ow) % 2 = 0
       /\ ImpliedHeight(crop_arg.cmd, oh) % 2 = 0

(***************************************************************************)
(* The blank-line test of detect_image_crop_cv (SpecDetectors)             *)
(***************************************************************************)

\* is_blank_line has returned for the line in dt_in
LineTested == dt_pc \in {"blank", "nonblank"} /\ dt_in.kind = "line"

\* pixel i of the line is within tol of the line's mean in channel c; n times
\* the deviation is compared, so that the mean keeps its fraction
WithinTolerance(line, i, c, tol) ==
  Abs(line[i][c] * Len(line) - ChannelSum(line, c, Len(line))) <= tol * Len(line)

\* every pixel is within tol of the mean in each channel
AllWithinTolerance(line, tol) ==
  \A i \in 1..Len(line) : \A c \in 1..3 : WithinTolerance(line, i, c, tol)

\* C29: is_blank_line classifies a row or column as blank exactly when every
\* pixel of it deviates from the line's mean colour by at most the tolerance
\* (5 by default) in each channel; a line with a pixel that exceeds the
\* tolerance in a single channel is not blank.
C29_BlankIffWithinTolerance ==
  LineTested => (dt_pc = "blank" <=> AllWithinTolerance(dt_in.obs, TOLERANCE))

(***************************************************************************)
(* When detect_crop_ffmpeg returns a rectangle (SpecDetectors)             *)
(***************************************************************************)

\* detect_crop_ffmpeg has returned
FfmpegReturned == dt_pc = "done" /\ dt_in.kind = "ffmpeg"

\* C30: detect_crop_ffmpeg returns the invalid rectangle whenever no probe
\* yields a rectangle, and whenever the duration is absent, unparseable or
\* zero, in which case no probe is run at all; it returns a valid rectangle
\* only if at least one probe reported one.
C30_InvalidWithoutProbeResult ==
  /\ (FfmpegReturned /\ dt_in.obs = <<>>) => dt_out = InvalidRect
  /\ (FfmpegReturned /\ dt_in.duration \notin UsableDurations) => dt_out = InvalidRect
  /\ dt_pc = "probes" => dt_in.duration \in UsableDurations
  /\ (FfmpegReturned /\ dt_out.valid)
       => (dt_in.obs # <<>> /\ dt_in.duration \in UsableDurations)

\* ffprobe wrote a zero duration: the function returned the invalid rectangle
\* although every probe would have reported a rectangle
C30_Witness ==
  /\ FfmpegReturned
  /\ dt_in.duration \in ZeroDurations
  /\ Len(dt_in.obs) = FFMPEG_PROBES
  /\ dt_out = InvalidRect

(***************************************************************************)
(* Timestamps of the frames handed to the encoder (SpecEncode)             *)
(***************************************************************************)

\* main has handed a filtered frame to encode_write_frame
FrameHanded == ew_st.call.site \in FrameSites

\* C31: every filtered frame sent to the encoder has a timestamp: a frame the
\* filter graph emitted without one, in the main loop, the decoder flush or
\* the filter-graph flush, carries the timestamp of the decoded frame it came
\* from when it is encoded.
C31_EncodedFramesHavePts ==
  FrameHanded =>
    /\ ew_st.call.pts # NOPTS
    /\ ew_st.call.filt_pts = NOPTS => ew_st.call.pts = ew_st.call.orig_pts

(***************************************************************************)
(* Decoder selection (SpecPipeline)                                        *)
(***************************************************************************)

\* the codec ids that have a named hardware decoder
HwCodecIds == {"h264", "hevc", "vp9", "av1"}

\* the lookup of lines 343-372 has run and the decoder context is not yet
\* allocated, or the lookup has thrown
Selected == job.sel.made

\* the lookup threw: main went to its cleanup without a decoder
SelectionFailed ==
  /\ decoder = "none"
  /\ pl_pc \in {"cleanup", "returned"}
  /\ ret = "EXIT_FAILURE"

\* C32: the decoder is chosen for the first video stream; the hardware
\* decoder named after its codec id (h264, hevc, vp9, av1) is selected when
\* it is available, otherwise the software decoder of the codec id; the
\* lookup fails only if neither exists or the input has no video stream;
\* test/main.cpp selects the same decoder; and the hardware device context
\* is created iff the selected decoder is a hardware decoder.
C32_PrefersHardwareDecoder ==
  /\ Selected =>
       LET s == job.sel
           i == FirstVideo(s.streams)
           hw == i > 0 /\ s.streams[i].codec_id \in HwCodecIds /\ s.by_name
       IN /\ hw => (s.name = preferred_decoder_name(s.streams[i].codec_id)
                     /\ decoder = "cuvid" /\ pl_pc = "alloc_decoder")
          /\ (i > 0 /\ ~hw /\ s.by_id)
               => (s.name = s.streams[i].codec_id
                   /\ decoder = "software" /\ pl_pc = "alloc_decoder")
          /\ SelectionFailed <=> (i = 0 \/ (~hw /\ ~s.by_id))
          /\ TestFindDecoder(s.streams, s.by_name, s.by_id) = s.name
  /\ IsSet(res, "hw_device_ctx_ref_global") => is_hw_decoder
  /\ pl_pc = "open_decoder" => (is_hw_decoder <=> IsSet(res, "hw_device_ctx_ref_global"))

\* an audio stream comes first, the video stream is HEVC, hevc_cuvid is not
\* built in and the software decoder is selected
C32_Witness ==
  /\ Selected
  /\ Len(job.sel.streams) = 2
  /\ job.sel.streams[1].codec_type = "audio"
  /\ job.sel.streams[2] = [codec_type |-> "video", codec_id |-> "hevc"]
  /\ ~job.sel.by_name /\ job.sel.by_id
  /\ job.sel.name = "hevc"
  /\ decoder = "software"

(***************************************************************************)
(* Positions the fallback samples (SpecExtractFair)                        *)
(***************************************************************************)

\* the MIN_FRAMES + 1 evenly spaced positions of the opened video
EvenPositions == {j * StepOf(total_frames) : j \in 0..MIN_FRAMES}

\* line 590: the position the next iteration of the fallback loop seeks to
SeekPos == (current_fallback_count - 1) * step

\* the fallback loop is about to seek and read (lines 593-595)
AboutToRead ==
  /\ ex_pc = "loop"
  /\ LoopContinues(current_fallback_count, fb_i)
  /\ ~(SeekPos >= total_frames /\ total_frames > 0)

\* C33: the fallback seeks to positions taken from the MIN_FRAMES + 1 evenly
\* spaced positions across the total frame count, visits each position at
\* most once, rejects blank frames, and appends each surviving frame after
\* the scene-pass frames.
C33_FallbackSamplesEachPositionOnce ==
  /\ [](AboutToRead => SeekPos \in EvenPositions)
  /\ [][(AboutToRead /\ ex_pc' = "loop") => SeekPos' # SeekPos]_vars
  /\ [][(AboutToRead /\ FrameAt(SeekPos) = "blank") => fb_written' = fb_written]_vars
  /\ [][(AboutToRead /\ FrameAt(SeekPos) = "ok")
         => (/\ fb_written' = Append(fb_written, SeekPos)
             /\ current_fallback_count' = scene_kept + Len(fb_written') + 1)]_vars

(***************************************************************************)
(* Numbering of the images of one video (SpecExtractFair)                  *)
(***************************************************************************)

\* the images a pass wrote, as positions of out_dir
WrittenBy(pass) == {n1 \in 1..Len(out_dir) : out_dir[n1].pass = pass}

\* extract_frames_for_video reached line 621 and reported its count
Reported == ex_pc = "done" /\ ex_exit = "return"

\* C34: the images written for one video carry the indices 1..K with no gap
\* and no duplicate across the scene pass and the fallback, so no image is
\* written twice or overwritten; the count reported as kept is K; and the
\* scene-pass images are numbered in ascending original frame-number order.
C34_IndicesOneToK ==
  /\ \A n1 \in 1..Len(out_dir) : out_dir[n1].idx = n1
  /\ \A n1 \in WrittenBy("scene"), n2 \in WrittenBy("fallback") : n1 < n2
  /\ Reported => final_frame_idx - 1 = Len(out_dir)
  /\ \A n1, n2 \in WrittenBy("scene") :
       n1 < n2 => out_dir[n1].frame_no <= out_dir[n2].frame_no

\* the scene pass wrote two images out of three scene cuts, the fallback
\* added the other two, and four frames are reported
C34_Witness ==
  /\ Reported
  /\ Cardinality(WrittenBy("scene")) = 2
  /\ Cardinality(WrittenBy("fallback")) = 2
  /\ out_dir[1].frame_no < out_dir[2].frame_no
  /\ final_frame_idx = 5

(***************************************************************************)
(* Exit status of crop/main.cpp (SpecPipeline)                             *)
(***************************************************************************)

\* main came to the end of its try block: nothing threw, no call of the main
\* loop failed, the decoder and the buffer sink both answered AVERROR_EOF
\* when flushed, and the trailer was written
CleanRun ==
  /\ job.trailer
  /\ ~job.fatal
  /\ job.dec_eof
  /\ job.filt_eof

\* C35: the exit status reflects the outcome: a job that opens, decodes,
\* filters, encodes, flushes and writes the trailer with no send / receive /
\* write error and no exception returns EXIT_SUCCESS; EXIT_FAILURE is
\* returned only after an error or exception.
C35_ExitStatusReflectsOutcome ==
  (pl_pc = "returned" /\ CleanRun) => exit_status = "EXIT_SUCCESS"

(***************************************************************************)
(* Frames and encoder back-pressure (SpecEncode)                           *)
(***************************************************************************)

\* C36: no filtered frame is lost to encoder back-pressure: a frame passed to
\* encode_write_frame with flush = false for which the call returns 0 has
\* been accepted by the encoder; a frame whose send answered EAGAIN is not
\* silently dropped.
C36_NoFrameLostToBackPressure ==
  (/\ EwReturned
   /\ ew_arg.filt_frame = "frame"
   /\ ~ew_arg.flush
   /\ ew_st.result = "0")
    => ew_st.accepted

(***************************************************************************)
(* The rectangle handed to crop_gpu and the source frame (SpecPhase1)      *)
(***************************************************************************)

\* every rectangle a probe can report lies inside the frame of its source
ProbesInside ==
  \A s \in Sources : \A r \in ProbeRects(s) :
    r.x + r.w <= s.ow /\ r.y + r.h <= s.oh

\* C37: every rectangle handle_video_phase1 passes to crop_gpu lies inside
\* the source frame after even-rounding, x + make_even(w) <= originalW and
\* y + make_even(h) <= originalH, whenever each probe rectangle lies inside
\* the source frame.
C37_CropInsideSource ==
  (ProbesInside /\ crop_arg.called)
    => /\ crop_arg.crop_w = make_even(crop_arg.rect.w)
       /\ crop_arg.crop_h = make_even(crop_arg.rect.h)
       /\ crop_arg.rect.x + crop_arg.crop_w <= src.ow
       /\ crop_arg.rect.y + crop_arg.crop_h <= src.oh

(***************************************************************************)
(* A software decoder in crop/main.cpp (SpecPipeline)                      *)
(***************************************************************************)

\* main is past init_filters: the encoder's pool, the encoder, the output
\* file and the frames are set up after it
PastInitFilters ==
  pl_pc \in {"encoder_pool", "open_encoder", "open_output", "alloc_frames"} \/ Decoding

\* C38: when the selected decoder is a software decoder the job never
\* reaches the decode loop: the buffer source is declared in the hardware
\* pixel format and there is no hardware frame pool, so the construction of
\* the filter graph fails at the latest, and the job ends in failure with no
\* packet written to the output.
C38_SoftwareDecoderNeverDecodes ==
  decoder = "software" =>
    /\ ~PastInitFilters
    /\ n_decoded = 0 /\ hist = <<>>
    /\ ~IsSet(res, "decoder_ctx.hw_frames_ctx")
    /\ ~IsSet(res, "output_format_ctx_global.pb")
    /\ ~job.trailer
    /\ pl_pc = "returned" => exit_status = "EXIT_FAILURE"

\* main has returned EXIT_FAILURE for a software decoder after init_filters
\* built the graph and the buffer-source parameters and failed at line 149
C38_Witness ==
  /\ pl_pc = "returned"
  /\ decoder = "software"
  /\ exit_status = "EXIT_FAILURE"
  /\ res.acq["filter"] = 4 /\ res.rel["filter"] = 4
  /\ n_decoded = 0

(***************************************************************************)
(* Submission and collection in phase1_crop (SpecBatchTasksEnd)            *)
(***************************************************************************)

\* std::async is called for video v (line 683)
Submits(v) == task[v] # "running" /\ task'[v] = "running"

\* get() is called on the future of video v (line 674 or 687)
Collects(v) == task[v] # "collected" /\ task'[v] = "collected"

\* phase1_crop returns from its parallel branch (line 689)
Phase1Returns == m_pc \in InPhase1 /\ m_pc' \notin InPhase1

\* C39: phase1_crop submits every enumerated video exactly once and collects
\* the result of every submitted task exactly once, whether it returned a
\* status or threw; and, every task terminating, phase1_crop terminates and
\* returns only after all submitted tasks have completed.
C39_SubmitsAndCollectsOnce ==
  /\ [][\A v \in Videos : Submits(v) => (task[v] = "notstarted" /\ m_pc = "p1_submit")]_vars
  /\ [][\A v \in Videos : Collects(v) => (task[v] = "ready" /\ result[v] # "none")]_vars
  /\ [][\A v \in Videos : task[v] = "collected" => task'[v] = "collected"]_vars
  /\ [](\A i, j \in 1..Len(futures) : futures[i] = futures[j] => i = j)
  /\ [](\A i \in 1..Len(futures) :
          task[futures[i]] = "collected" => (m_pc = "p1_drain" /\ i < drain_i))
  /\ [][Phase1Returns => \A v \in Videos : task'[v] = "collected"]_vars
  /\ (m_pc = "p1_loop") ~> (m_pc = "p2_enum")

\* phase1_crop has just returned from a batch larger than the pool in which
\* the first task threw and the last returned a status, all collected
C39_Witness ==
  /\ m_pc = "p2_enum"
  /\ Len(vids) = MaxVideos
  /\ next_v = MaxVideos + 1
  /\ result[1] = "threw"
  /\ result[MaxVideos] = "ok"
  /\ \A v \in Videos : task[v] = "collected"

====
